---- MODULE Spec2Model ----
(***************************************************************************)
(* Verification model of the arb-scanner backend.                          *)
(*                                                                         *)
(*   Spec        the discovery loop's cycles over the tables, with the     *)
(*               REST price refresh loop beside them.                      *)
(*   SpecIngest  the discovery loop's cycles with the paged fetches of the *)
(*               two exchanges spelled out.                                *)
(*   SpecLock    the discovery loop and concurrent trigger_now calls       *)
(*               around _cycle_lock.                                       *)
(*   SpecStream  the two streaming price handlers and the REST price       *)
(*               refresh over the shared aiosqlite connection.             *)
(*   SpecHistory the streaming handlers and the REST refresh as time       *)
(*               passes, with a client disconnected: every writer of       *)
(*               history rows.                                             *)
(*   SpecMatch   a sequence of match_markets calls in one process.         *)
(*   SpecPrice   the price handlers of two connected streaming clients as  *)
(*               time passes.                                              *)
(*   SpecClient  the life of the two streaming clients: connect, resub-    *)
(*               scribe, receive, reconnect with backoff, stop.            *)
(*   SpecSync    the subscription sync of the streaming clients after a    *)
(*               discovery cycle.                                          *)
(*   SpecFront   the frontend WebSocket connections, their subscriptions   *)
(*               and the broadcasts to them.                               *)
(*   SpecStop    poller.stop() beside the two loops and trigger_now calls; *)
(*               SpecStopFair adds the fairness of timers and wake-ups.    *)
(*   SpecSports  match_sports_deterministic on one game, as listed, with   *)
(*               team codes swapped, and as a discovery cycle calls it.    *)
(*   SpecOrient  check_sports_orientation on one market id and one slug.   *)
(*   SpecCalc    calculate_spread on one pair of prices.                   *)
(*   SpecUpsert  the upsert loop that persists the matches of a cycle.     *)
(*   SpecConfirm match_markets on one candidate pair: prefilters, the      *)
(*               confirmation reply, the orientation check.                *)
(*                                                                         *)
(* All coroutines run on one asyncio event loop: a step of the model is    *)
(* the code a task executes between two suspension points (awaits).        *)
(* Prices are integers in cents (0.01 == 1); spreads are integers in units *)
(* of 0.0001, the precision calculate_spread rounds to.                    *)
(***************************************************************************)
EXTENDS Integers, Sequences, FiniteSets, TLC

\* ------------------------------------------------------------------------
\* Bounds of the model
\* ------------------------------------------------------------------------
MaxCycles == 2       \* _run_cycle invocations explored by Spec
MaxLockCycles == 3   \* _run_cycle invocations explored by SpecLock
MaxEvents == 2       \* streaming price events explored
MaxRefreshes == 1    \* REST refresh passes explored
MaxMatchId == 2      \* AUTOINCREMENT ids handed out by the matches table
MaxTicks == 1        \* throttle intervals the clock advances
MaxMatchCalls == 2   \* match_markets calls explored by SpecMatch and SpecConfirm
MaxStopCycles == 2   \* _run_cycle invocations explored by SpecStop
MaxKalshi == 2       \* Kalshi markets handed to match_sports_deterministic
MaxUpsertCycles == 2 \* cycles whose upsert loop SpecUpsert explores

\* matcher._MAX_CONFIRMATIONS_PER_CYCLE (200 in the source), scaled to the
\* two candidate pairs of this model
_MAX_CONFIRMATIONS_PER_CYCLE == 1

\* ws_manager._HISTORY_INTERVAL, seconds
_HISTORY_INTERVAL == 15

\* ------------------------------------------------------------------------
\* Universe: listings of the two exchanges, tasks
\* ------------------------------------------------------------------------
PolyIds == {"p1", "p2"}
KalshiIds == {"k1"}
Listings == PolyIds \cup KalshiIds
Pairs == PolyIds \X KalshiIds
Prices == {1, 50}
\* yes prices the REST price refresh can fetch
RefreshPrices == {50}
\* yes prices a streaming event can carry: the clients clamp to [0, 1]
WsPrices == {0, 1, 50}
\* volume of a listing as the REST endpoints report it / of one trade as a
\* streaming event reports it
RestVolumes == {100}
TradeVolumes == {5}
\* no row (of markets, of matches), or NULL in a column
NoRow == -1

Disc == "disc"
Triggers == {"t1", "t2"}
CycleProcs == {Disc} \cup Triggers
WsClients == {"poly", "kalshi"}
Refresh == "refresh"
Matcher == "matcher"
Procs == CycleProcs \cup WsClients \cup {Refresh, Matcher}

ExchangeOf(c) == IF c = "poly" THEN PolyIds ELSE KalshiIds

VARIABLES
    pc,                 \* position of every task
    _cycle_lock,        \* poller._cycle_lock
    _db_write_lock,     \* ws_manager._db_write_lock
    markets,            \* markets table: listing -> yes price in cents, NoRow when absent
    volume,             \* markets table: listing -> volume, NoRow when absent
    matches,            \* matches table: (poly id, kalshi id) -> row id, NoRow when absent
    match_row,          \* matches table: row id -> price, spread and volume columns
    next_match_id,      \* AUTOINCREMENT counter of matches
    price_history,      \* price_history table: match id -> number of rows
    market_embeddings,  \* market_embeddings table: set of market ids
    subscribed,         \* ws_manager token/ticker maps: listings with a map entry
    connected,          \* connected flag of each streaming client
    clock,              \* time.monotonic(), seconds
    _last_history_ts,   \* ws_manager._last_history_ts: match id -> monotonic time
    listing,            \* _run_cycle locals: poly_ids / kalshi_ids of this cycle
    quoted,             \* _run_cycle locals poly_markets / kalshi_markets: yes prices selected for matching
    confirmed,          \* _run_cycle local: result of match_markets
    ws_event,           \* the price event a streaming client is handling: [mid, yes, volume, now_ts]
    affected,           \* _update_market_and_matches local: match rows selected, with both yes prices
    updates_to_broadcast, \* _update_market_and_matches local: match ids whose payload is still to be sent
    ws_update,          \* history: how the update a streaming client handles has ended so far
    stream_rows,        \* history: match id -> monotonic times of the history rows the streaming path appended
    rf_matches,         \* refresh_prices local: match rows still to process
    rf_outcome,         \* history: the branch the latest iteration of _price_refresh_loop took
    rest_rows,          \* history: match id -> monotonic times of the history rows the REST refresh appended
    status,             \* outcome of the current trigger_now call
    call,               \* history: what the current trigger_now call observed and did
    cycles,             \* _run_cycle invocations left to explore
    events, refreshes,  \* counters that bound the exploration
    _rejected_keys,     \* matcher._rejected_keys
    cached_keys,        \* match_markets local: keys of persisted and deterministic matches
    deterministic_pairs, \* match_markets local
    det_raw,            \* match_markets local: output of match_sports_deterministic
    embedding_candidates, \* match_markets local: output of find_embedding_candidates
    kw_candidates,      \* match_markets local: output of _find_sports_candidates, unfiltered
    candidates,         \* match_markets local: merged candidates not yet visited by pass 2
    det_confirmed,      \* match_markets local
    pass2_confirmed,    \* match_markets local "confirmed"
    llm_calls,          \* match_markets local
    groq_calls,         \* history: pairs sent to the confirmation service in this call
    response,           \* history: the latest answer of the confirmation service
    deferred,           \* history: candidates left unvisited when the cap stopped pass 2
    match_calls,        \* match_markets calls made so far
    _running,           \* streaming client: _running
    _ws,                \* streaming client: _ws, "None" or the state of the socket it refers to
    _task,              \* streaming client: position of the _run task
    backoff,            \* _run local: the next reconnect delay, seconds
    _subscribed_ids,    \* streaming client: _subscribed_tokens / _subscribed_tickers
    wire,               \* history: the subscription messages the client has sent on its current socket
    handled,            \* history: an incoming message of the current socket has been handled
    last_delay,         \* history: the delay of the latest wait since the last clean exit, 0 when none
    api_call,           \* history: the latest subscribe / unsubscribe call
    stopping,           \* position of stop()
    attempts, api_calls, \* counters that bound the exploration
    sync_pc,            \* position of each sync_subscriptions call
    sync_desired,       \* sync_subscriptions locals desired_poly / desired_kalshi (keys)
    sync_new,           \* sync_subscriptions locals new_poly / new_kalshi
    sync_removed,       \* sync_subscriptions locals removed_poly / removed_kalshi
    fresh,              \* history: matches has not changed since the latest sync call began
    syncs, changes,     \* counters that bound the exploration
    _connections,       \* routers/ws.py manager._connections: frontend socket -> match ids
    _match_subscribers, \* routers/ws.py manager._match_subscribers: match id -> frontend sockets
    bcast,              \* the broadcast() call each price handler is in: match id, size of subs at the start of the iteration, sockets sent to, dead sockets
    front_ops, broadcasts, \* counters that bound the exploration
    _stop_event,        \* poller._stop_event is set
    stop_call,          \* position of poller.stop(): the task it awaits
    failures,           \* history: discovery cycles that ended with an exception
    poly_markets,       \* match_sports_deterministic argument: the Polymarket markets
    kalshi_markets,     \* match_sports_deterministic argument: the Kalshi markets
    matched,            \* match_sports_deterministic results: for the markets as listed, with team codes swapped, and inside a cycle
    mm_in,              \* match_markets, pass 2 in detail: the two markets and the confidence of the candidate
    mm_out,             \* match_markets, pass 2 in detail: position, what happened to the candidate, the list returned
    calc_in,            \* calculate_spread arguments: the two YES prices, in cents
    calc_out,           \* calculate_spread result
    up_rows,            \* upsert loop: the rows of the matches table, in insertion order
    up_call,            \* upsert loop: the matches still to upsert, the cycle's now, the next row id, the last match upserted
    upstream,           \* what the two exchanges listed when the latest ingest fetched them
    page_failed         \* exchange -> a page fetch of the latest ingest failed after its retries

dbVars == <<markets, volume, matches, match_row, next_match_id, price_history, market_embeddings>>
wsVars == <<subscribed, connected, clock, _last_history_ts, ws_event, affected,
           updates_to_broadcast, ws_update, stream_rows>>
rfVars == <<rf_matches, rf_outcome, rest_rows>>
cycleLocals == <<listing, quoted, confirmed>>
trigVars == <<status, call>>
counters == <<cycles, events, refreshes>>
pollerVars == <<pc, _cycle_lock, _db_write_lock, dbVars, wsVars, rfVars,
                cycleLocals, trigVars, counters>>
matchLocals == <<cached_keys, deterministic_pairs, det_raw, embedding_candidates,
                 kw_candidates, candidates, det_confirmed, pass2_confirmed, llm_calls>>
matchVars == <<_rejected_keys, matchLocals, groq_calls, response, deferred, match_calls>>
syncVars == <<sync_pc, sync_desired, sync_new, sync_removed, fresh, syncs, changes>>
frontVars == <<_connections, _match_subscribers, bcast, front_ops, broadcasts>>
stopVars == <<_stop_event, stop_call, failures>>
sportsVars == <<poly_markets, kalshi_markets, matched>>
confirmVars == <<mm_in, mm_out>>
calcVars == <<calc_in, calc_out, up_rows, up_call>>
pureVars == <<sportsVars, confirmVars, calcVars>>
fetchVars == <<upstream, page_failed>>
laterVars == <<stopVars, pureVars, fetchVars>>
extVars == <<syncVars, frontVars, laterVars>>
clientVars == <<_running, _ws, _task, backoff, _subscribed_ids, wire, handled, last_delay,
                api_call, stopping, attempts, api_calls>>

\* ------------------------------------------------------------------------
\* asyncio.Lock: a locked flag and a FIFO of waiter futures.  A waiter is
\* [proc, woken]; woken is the future's result having been set by release().
\* A waiter that is cancelled leaves the queue at once (Abandoned), so
\* "all waiters cancelled" is the same as "no waiters".
\* ------------------------------------------------------------------------
NewLock == [locked |-> FALSE, waiters |-> <<>>]

\* Lock.locked()
Locked(l) == l.locked

\* fast path of Lock.acquire(): free and nobody queued
CanAcquireNow_Unfair(l) == TRUE
CanAcquireNow(l) == ~l.locked /\ l.waiters = <<>>

Acquired(l) == [l EXCEPT !.locked = TRUE]

Enqueued(l, p) == [l EXCEPT !.waiters = Append(@, [proc |-> p, woken |-> FALSE])]

\* Lock.release(): clear the flag and wake the first waiter
Released(l) ==
    [locked |-> FALSE,
     waiters |-> IF l.waiters = <<>> THEN <<>>
                 ELSE <<[l.waiters[1] EXCEPT !.woken = TRUE]>> \o Tail(l.waiters)]

IsWoken(l, p) == \E i \in 1..Len(l.waiters) : l.waiters[i].proc = p /\ l.waiters[i].woken

\* the woken waiter resumes in acquire(): leaves the queue and takes the lock
Resumed(l, p) ==
    [locked |-> TRUE,
     waiters |-> SelectSeq(l.waiters, LAMBDA w : w.proc # p)]

IsWaiting(l, p) == \E i \in 1..Len(l.waiters) : l.waiters[i].proc = p

\* ------------------------------------------------------------------------
\* Tables (database.py).  One aiosqlite connection is shared by every task,
\* so a statement sees every earlier statement, committed or not; no task
\* ever rolls back.  PRAGMA foreign_keys=ON: price_history.match_id
\* REFERENCES matches(id), market_embeddings.market_id REFERENCES markets(id).
\* ------------------------------------------------------------------------
MatchIds == 1..MaxMatchId

\* ids of the rows of the matches table
MatchRowIds == {matches[pr] : pr \in {q \in Pairs : matches[q] # NoRow}}

PairOfId(id) == CHOOSE pr \in Pairs : matches[pr] = id

\* rows of matches that reference listing mid on either side
MatchesOf(mid) == {matches[pr] : pr \in {q \in Pairs : matches[q] # NoRow /\ (q[1] = mid \/ q[2] = mid)}}

\* WHERE polymarket_id NOT IN (poly_ids) OR kalshi_id NOT IN (kalshi_ids)
StaleMatchWhere_Both(pr, l) == pr[1] \notin l.poly /\ pr[2] \notin l.kalshi
StaleMatchWhere(pr, l) == pr[1] \notin l.poly \/ pr[2] \notin l.kalshi

StalePairs(l) == {pr \in Pairs : matches[pr] # NoRow /\ StaleMatchWhere(pr, l)}

\* WHERE volume > 0 AND yes_price BETWEEN 0.02 AND 0.98
EmbedEligible(mid) ==
    markets[mid] # NoRow /\ volume[mid] > 0 /\ markets[mid] >= 2 /\ markets[mid] <= 98

\* WHERE volume > 0 AND yes_price BETWEEN 0.01 AND 0.99
MatchEligible(mid) ==
    markets[mid] # NoRow /\ volume[mid] > 0 /\ markets[mid] >= 1 /\ markets[mid] <= 99

\* if poly_fetched > 0 and kalshi_fetched > 0 and poly_ids and kalshi_ids
CleanupGuard_Lax(l) == l.poly # {} \/ l.kalshi # {}
CleanupGuard(l) == l.poly # {} /\ l.kalshi # {}

NoListing == [poly |-> {}, kalshi |-> {}]

NoQuote == [m \in Listings |-> NoRow]

\* the price, spread and volume columns of a matches row
NoFields == [polymarket_yes |-> NoRow, kalshi_yes |-> NoRow, spread |-> NoRow,
             fee_adjusted_spread |-> NoRow, polymarket_volume |-> NoRow,
             kalshi_volume |-> NoRow]

\* ------------------------------------------------------------------------
\* calculator.py.  A price of c cents is c / 100; fees are computed in units
\* of 0.000001 and the results rounded to units of 0.0001 (round(x, 4); for
\* whole-cent prices no value falls on a rounding tie).
\* ------------------------------------------------------------------------
Min(a, b) == IF a <= b THEN a ELSE b
Max(a, b) == IF a >= b THEN a ELSE b
Abs(a) == IF a >= 0 THEN a ELSE -a
Round4(x) == (x + 50) \div 100

\* min(0.07 * price * (1 - price), 0.02)
kalshi_fee(price) == Min(7 * price * (100 - price), 20000)

polymarket_fee(price) == 0

\* the result without the floor at 0 / with the direction of the cheaper
\* Kalshi side taken only for a strictly higher Polymarket price
calculate_spread_NoFloor(poly_yes, kalshi_yes) ==
    LET profit == 10000 * Abs(poly_yes - kalshi_yes) - kalshi_fee(kalshi_yes)
    IN [raw_spread |-> Round4(10000 * Abs(poly_yes - kalshi_yes)),
        fee_adjusted_spread |-> Round4(profit),
        kalshi_fee |-> Round4(kalshi_fee(kalshi_yes)),
        direction |-> IF poly_yes >= kalshi_yes THEN "buy_kalshi_sell_poly"
                      ELSE "buy_poly_sell_kalshi",
        profitable |-> profit > 0]

calculate_spread_Strict(poly_yes, kalshi_yes) ==
    LET profit == 10000 * Abs(poly_yes - kalshi_yes) - kalshi_fee(kalshi_yes)
    IN [raw_spread |-> Round4(10000 * Abs(poly_yes - kalshi_yes)),
        fee_adjusted_spread |-> Round4(Max(0, profit)),
        kalshi_fee |-> Round4(kalshi_fee(kalshi_yes)),
        direction |-> IF poly_yes > kalshi_yes THEN "buy_kalshi_sell_poly"
                      ELSE "buy_poly_sell_kalshi",
        profitable |-> Max(0, profit) > 0]

calculate_spread(poly_yes, kalshi_yes) ==
    LET profit == IF poly_yes >= kalshi_yes
                  THEN 10000 * (poly_yes - kalshi_yes) - kalshi_fee(kalshi_yes)
                           - polymarket_fee(poly_yes)
                  ELSE 10000 * (kalshi_yes - poly_yes) - polymarket_fee(poly_yes)
                           - kalshi_fee(kalshi_yes)
    IN [raw_spread |-> Round4(10000 * Abs(poly_yes - kalshi_yes)),
        fee_adjusted_spread |-> Round4(Max(0, profit)),
        kalshi_fee |-> Round4(kalshi_fee(kalshi_yes)),
        direction |-> IF poly_yes >= kalshi_yes THEN "buy_kalshi_sell_poly"
                      ELSE "buy_poly_sell_kalshi",
        profitable |-> Max(0, profit) > 0]

\* ------------------------------------------------------------------------
\* poller._run_cycle
\* ------------------------------------------------------------------------
CycleBody == {"ingest", "cleanup_hist", "cleanup_matches", "cleanup_markets",
              "embed", "match", "persist", "commit"}

CycleInFlight == \E p \in CycleProcs : pc[p] \in CycleBody

\* where the caller of _run_cycle continues
AfterCycle_Ends(p) == IF p = Disc THEN "exited" ELSE "returned"
AfterCycle(p) == IF p = Disc THEN "loop" ELSE "returned"

\* async with _cycle_lock: (entry)
EnterCycle(p) ==
    /\ cycles > 0
    /\ cycles' = cycles - 1
    /\ IF CanAcquireNow(_cycle_lock)
       THEN /\ _cycle_lock' = Acquired(_cycle_lock)
            /\ pc' = [pc EXCEPT ![p] = "ingest"]
       ELSE /\ _cycle_lock' = Enqueued(_cycle_lock, p)
            /\ pc' = [pc EXCEPT ![p] = "lock_wait"]

\* the task queued on _cycle_lock is resumed by the event loop
CycleLockResume(p) ==
    /\ pc[p] = "lock_wait"
    /\ IsWoken(_cycle_lock, p)
    /\ _cycle_lock' = Resumed(_cycle_lock, p)
    /\ pc' = [pc EXCEPT ![p] = "ingest"]
    /\ UNCHANGED <<_db_write_lock, dbVars, wsVars, rfVars, cycleLocals, trigVars, counters>>
    /\ UNCHANGED <<matchVars, clientVars, extVars>>

\* an exception leaves the async with block: the lock is released and the
\* exception reaches the caller (logged by _discovery_loop, propagated by
\* trigger_now)
CycleRaise(p) ==
    /\ _cycle_lock' = Released(_cycle_lock)
    /\ pc' = [pc EXCEPT ![p] = AfterCycle(p)]
    /\ listing' = [listing EXCEPT ![p] = NoListing]
    /\ quoted' = [quoted EXCEPT ![p] = NoQuote]
    /\ confirmed' = [confirmed EXCEPT ![p] = {}]
    /\ IF p \in Triggers
       THEN status' = [status EXCEPT ![p] = "raised"]
       ELSE UNCHANGED status
    /\ UNCHANGED call

\* the statement that follows statement l in the body of _run_cycle (after
\* the ingest the cleanup guard decides)
StepAfter_Again(l) ==
    CASE l = "cleanup_hist" -> "cleanup_matches"
      [] l = "cleanup_matches" -> "cleanup_markets"
      [] l = "cleanup_markets" -> "embed"
      [] l = "embed" -> "match"
      [] l = "match" -> "embed"
      [] OTHER -> "commit"
StepAfter(l) ==
    CASE l = "cleanup_hist" -> "cleanup_matches"
      [] l = "cleanup_matches" -> "cleanup_markets"
      [] l = "cleanup_markets" -> "embed"
      [] l = "embed" -> "match"
      [] l = "match" -> "persist"
      [] OTHER -> "commit"

\* Step 1: ingest_polymarket(), ingest_kalshi() upsert the listings ps, ks
\* that the fetches returned, then the cleanup guard is read
IngestReturned(p, ps, ks) ==
    /\ \E yes \in [ps \cup ks -> Prices] :
            /\ markets' = [m \in Listings |-> IF m \in ps \cup ks THEN yes[m] ELSE markets[m]]
            /\ \E vol \in RestVolumes :
                 volume' = [m \in Listings |-> IF m \in ps \cup ks THEN vol ELSE volume[m]]
            /\ listing' = [listing EXCEPT ![p] = [poly |-> ps, kalshi |-> ks]]
            /\ pc' = [pc EXCEPT ![p] = IF CleanupGuard([poly |-> ps, kalshi |-> ks])
                                        THEN "cleanup_hist" ELSE "embed"]
    /\ UNCHANGED <<_cycle_lock, _db_write_lock, matches, match_row, next_match_id,
                   price_history, market_embeddings, wsVars, rfVars, quoted, confirmed,
                   trigVars, counters>>
    /\ UNCHANGED <<matchVars, clientVars>>

\* Step 1 with the fetches left open: any part of the exchanges' listings
\* is returned (nothing when the fetch failed)
Ingest(p) ==
    /\ pc[p] = "ingest"
    /\ \E ps \in SUBSET PolyIds, ks \in SUBSET KalshiIds : IngestReturned(p, ps, ks)
    /\ UNCHANGED extVars

\* Step 1.5 (1): DELETE FROM price_history WHERE match_id IN (stale matches)
CleanupHistory(p) ==
    /\ pc[p] = "cleanup_hist"
    /\ price_history' = [id \in MatchIds |->
            IF \E pr \in StalePairs(listing[p]) : matches[pr] = id THEN 0 ELSE price_history[id]]
    /\ pc' = [pc EXCEPT ![p] = StepAfter("cleanup_hist")]
    /\ UNCHANGED <<_cycle_lock, _db_write_lock, markets, volume, matches, match_row,
                   next_match_id, market_embeddings, wsVars, rfVars, cycleLocals,
                   trigVars, counters>>
    /\ UNCHANGED <<matchVars, clientVars, extVars>>

\* Step 1.5 (2): DELETE FROM matches WHERE stale; the statement fails on the
\* foreign key when a row to delete still has price_history rows
CleanupMatches(p) ==
    /\ pc[p] = "cleanup_matches"
    /\ IF \E pr \in StalePairs(listing[p]) : price_history[matches[pr]] > 0
       THEN /\ CycleRaise(p)
            /\ UNCHANGED <<_db_write_lock, dbVars, wsVars, rfVars, counters>>
       ELSE /\ matches' = [pr \in Pairs |->
                    IF pr \in StalePairs(listing[p]) THEN NoRow ELSE matches[pr]]
            /\ match_row' = [id \in MatchIds |->
                    IF \E pr \in StalePairs(listing[p]) : matches[pr] = id
                    THEN NoFields ELSE match_row[id]]
            /\ pc' = [pc EXCEPT ![p] = StepAfter("cleanup_matches")]
            /\ UNCHANGED <<_cycle_lock, _db_write_lock, markets, volume, next_match_id,
                           price_history, market_embeddings, wsVars, rfVars, cycleLocals,
                           trigVars, counters>>
    /\ UNCHANGED <<matchVars, clientVars, extVars>>

\* Step 1.5 (3), (4): DELETE FROM market_embeddings / markets WHERE id NOT IN
\* (all_active_ids); commit
CleanupMarkets(p) ==
    /\ pc[p] = "cleanup_markets"
    /\ LET active == listing[p].poly \cup listing[p].kalshi IN
         /\ market_embeddings' = market_embeddings \cap active
         /\ markets' = [m \in Listings |-> IF m \in active THEN markets[m] ELSE NoRow]
         /\ volume' = [m \in Listings |-> IF m \in active THEN volume[m] ELSE NoRow]
    /\ pc' = [pc EXCEPT ![p] = StepAfter("cleanup_markets")]
    /\ UNCHANGED <<_cycle_lock, _db_write_lock, matches, match_row, next_match_id,
                   price_history, wsVars, rfVars, cycleLocals, trigVars, counters>>
    /\ UNCHANGED <<matchVars, clientVars, extVars>>

\* Step 2: embed_new_markets(): prune the embeddings of markets that are no
\* longer eligible, embed the eligible markets that have none (none when the
\* embedding batch fails)
EmbedNewMarkets(p) ==
    /\ pc[p] = "embed"
    /\ LET kept == {m \in market_embeddings : EmbedEligible(m)}
           new == {m \in Listings : EmbedEligible(m)} \ kept
       IN \E ok \in BOOLEAN :
            market_embeddings' = IF ok THEN kept \cup new ELSE kept
    /\ pc' = [pc EXCEPT ![p] = StepAfter("embed")]
    /\ UNCHANGED <<_cycle_lock, _db_write_lock, markets, volume, matches, match_row,
                   next_match_id, price_history, wsVars, rfVars, cycleLocals, trigVars,
                   counters>>
    /\ UNCHANGED <<matchVars, clientVars, extVars>>

\* Step 3: SELECT the eligible rows with their prices;
\* match_markets(poly_markets, kalshi_markets) returns pairs that are not
\* yet persisted, each with the selected prices of its two listings
\* (SpecMatch models its passes)
MatchStep(p) ==
    /\ pc[p] = "match"
    /\ \E found \in SUBSET {pr \in Pairs : MatchEligible(pr[1]) /\ MatchEligible(pr[2])
                                           /\ matches[pr] = NoRow} :
         /\ next_match_id + Cardinality(found) - 1 <= MaxMatchId
         /\ confirmed' = [confirmed EXCEPT ![p] = found]
         /\ quoted' = [quoted EXCEPT ![p] =
                 [m \in Listings |-> IF \E pr \in found : m = pr[1] \/ m = pr[2]
                                      THEN markets[m] ELSE NoRow]]
    /\ pc' = [pc EXCEPT ![p] = StepAfter("match")]
    /\ UNCHANGED <<extVars, clientVars, _cycle_lock, _db_write_lock, dbVars, wsVars, rfVars, listing,
                   trigVars, counters>>
    /\ UNCHANGED <<matchVars, clientVars, extVars>>

\* the columns the upsert gives a new matches row: spread and prices from
\* the prices match_markets was given; the volume columns stay NULL
InsertedFields(poly_yes, kalshi_yes) ==
    [polymarket_yes |-> poly_yes, kalshi_yes |-> kalshi_yes,
     spread |-> calculate_spread(poly_yes, kalshi_yes).raw_spread,
     fee_adjusted_spread |-> calculate_spread(poly_yes, kalshi_yes).fee_adjusted_spread,
     polymarket_volume |-> NoRow, kalshi_volume |-> NoRow]

\* Step 3, upsert loop: INSERT INTO matches ... ON CONFLICT(polymarket_id,
\* kalshi_id) DO UPDATE SET confidence, last_updated
Persist(p) ==
    /\ pc[p] = "persist"
    /\ LET new == {pr \in confirmed[p] : matches[pr] = NoRow}
           ids == next_match_id .. (next_match_id + Cardinality(new) - 1)
       IN \E rowid \in [new -> ids] :
            /\ \A a, b \in new : a # b => rowid[a] # rowid[b]
            /\ matches' = [pr \in Pairs |-> IF pr \in new THEN rowid[pr] ELSE matches[pr]]
            /\ match_row' = [id \in MatchIds |->
                    IF \E pr \in new : rowid[pr] = id
                    THEN LET pr == CHOOSE q \in new : rowid[q] = id
                         IN InsertedFields(quoted[p][pr[1]], quoted[p][pr[2]])
                    ELSE match_row[id]]
            /\ next_match_id' = next_match_id + Cardinality(new)
    /\ pc' = [pc EXCEPT ![p] = StepAfter("persist")]
    /\ UNCHANGED <<_cycle_lock, _db_write_lock, markets, volume, price_history,
                   market_embeddings, wsVars, rfVars, cycleLocals, trigVars, counters>>
    /\ UNCHANGED <<matchVars, clientVars, extVars>>

\* sync_subscriptions(): the token/ticker maps become the identifiers of the
\* persisted matches (a Polymarket token is read from its markets row)
DesiredSubscriptions ==
    {m \in PolyIds : markets[m] # NoRow /\ MatchesOf(m) # {}}
        \cup {m \in KalshiIds : MatchesOf(m) # {}}

\* db.commit(); Step 4: ws_manager.sync_subscriptions() (a failure of the
\* sync, which is logged and leaves the maps stale, is not explored);
\* _last_run; the async with block ends and releases _cycle_lock
CommitAndResync(p) ==
    /\ pc[p] = "commit"
    /\ subscribed' = DesiredSubscriptions
    /\ _cycle_lock' = Released(_cycle_lock)
    /\ pc' = [pc EXCEPT ![p] = AfterCycle(p)]
    /\ listing' = [listing EXCEPT ![p] = NoListing]
    /\ quoted' = [quoted EXCEPT ![p] = NoQuote]
    /\ confirmed' = [confirmed EXCEPT ![p] = {}]
    /\ IF p \in Triggers
       THEN /\ status' = [status EXCEPT ![p] = "ok"]
            /\ call' = [call EXCEPT ![p].ran = @ + 1]
       ELSE UNCHANGED trigVars
    /\ UNCHANGED <<_db_write_lock, dbVars, connected, clock, _last_history_ts, ws_event,
                   affected, updates_to_broadcast, ws_update, stream_rows, rfVars, counters>>
    /\ UNCHANGED <<matchVars, clientVars, extVars>>

\* The control effect of the steps of the cycle body, for SpecLock: a step
\* completes and the task moves to the next one (the cleanup statements are
\* skipped when the guard is false), or it raises
NextLabel(l) ==
    IF l = "ingest" THEN {"cleanup_hist", "embed"} ELSE {StepAfter(l)}

CycleStepCompletes(p) ==
    /\ pc[p] \in CycleBody \ {"commit"}
    /\ \E l \in NextLabel(pc[p]) : pc' = [pc EXCEPT ![p] = l]
    /\ UNCHANGED <<extVars, clientVars, _cycle_lock, _db_write_lock, dbVars, wsVars, rfVars, cycleLocals,
                   trigVars, counters>>
    /\ UNCHANGED <<matchVars, clientVars, extVars>>

CycleStepRaises(p) ==
    /\ pc[p] \in CycleBody
    /\ CycleRaise(p)
    /\ UNCHANGED <<_db_write_lock, dbVars, wsVars, rfVars, counters>>
    /\ UNCHANGED <<matchVars, clientVars, extVars>>

\* ------------------------------------------------------------------------
\* poller._discovery_loop and poller.trigger_now
\* ------------------------------------------------------------------------
\* while not _stop_event.is_set(): await _run_cycle() (the interval sleep
\* that follows a cycle has elapsed when the loop is at "loop" again)
DiscoveryLoop ==
    /\ pc[Disc] = "loop"
    /\ EnterCycle(Disc)
    /\ UNCHANGED <<_db_write_lock, dbVars, wsVars, rfVars, cycleLocals, trigVars,
                   events, refreshes>>
    /\ UNCHANGED <<matchVars, clientVars, extVars>>

\* if _cycle_lock.locked(): return busy
TriggerBusy_Never == FALSE
TriggerBusy == Locked(_cycle_lock)

NoCall == [inflight |-> FALSE, waited |-> FALSE, ran |-> 0]

\* trigger_now(): busy, or result = await _run_cycle()
TriggerNow(t) ==
    /\ pc[t] \in {"idle", "returned"}
    /\ IF TriggerBusy
       THEN /\ status' = [status EXCEPT ![t] = "busy"]
            /\ call' = [call EXCEPT ![t] = [inflight |-> CycleInFlight, waited |-> FALSE, ran |-> 0]]
            /\ pc' = [pc EXCEPT ![t] = "returned"]
            /\ UNCHANGED <<_cycle_lock, counters>>
       ELSE /\ EnterCycle(t)
            /\ status' = [status EXCEPT ![t] = "none"]
            /\ call' = [call EXCEPT ![t] = [inflight |-> CycleInFlight,
                                            waited |-> ~CanAcquireNow(_cycle_lock), ran |-> 0]]
            /\ UNCHANGED <<events, refreshes>>
    /\ UNCHANGED <<_db_write_lock, dbVars, wsVars, rfVars, cycleLocals>>
    /\ UNCHANGED <<matchVars, clientVars, extVars>>

\* ------------------------------------------------------------------------
\* Streaming clients and ws_manager._update_market_and_matches
\* ------------------------------------------------------------------------
NoEvent == [mid |-> "none", yes |-> 0, volume |-> 0, now_ts |-> 0]

WsSection == {"ws_update", "ws_matches", "ws_commit"}

\* the client's connection is established / lost (only between messages:
\* the receive loop awaits the handler of each message)
WsConnect(c) ==
    /\ pc[c] = "ws_idle"
    /\ ~connected[c]
    /\ connected' = [connected EXCEPT ![c] = TRUE]
    /\ UNCHANGED <<pc, _cycle_lock, _db_write_lock, dbVars, subscribed, clock,
                   _last_history_ts, ws_event, affected, updates_to_broadcast, ws_update,
                   stream_rows, rfVars, cycleLocals, trigVars, counters>>
    /\ UNCHANGED <<matchVars, clientVars, extVars>>

WsDisconnect(c) ==
    /\ pc[c] = "ws_idle"
    /\ connected[c]
    /\ connected' = [connected EXCEPT ![c] = FALSE]
    /\ UNCHANGED <<pc, _cycle_lock, _db_write_lock, dbVars, subscribed, clock,
                   _last_history_ts, ws_event, affected, updates_to_broadcast, ws_update,
                   stream_rows, rfVars, cycleLocals, trigVars, counters>>
    /\ UNCHANGED <<matchVars, clientVars, extVars>>

\* _on_poly_price / _on_kalshi_price: an event whose token is in the map
\* enters _update_market_and_matches and reaches async with _db_write_lock
\* (an event for an unmapped token returns at once and changes nothing);
\* the volume of the event is not passed on
WsPriceEvent(c) ==
    /\ pc[c] = "ws_idle"
    /\ connected[c]
    /\ events < MaxEvents
    /\ events' = events + 1
    /\ \E mid \in ExchangeOf(c) \cap subscribed, y \in WsPrices, v \in TradeVolumes :
         ws_event' = [ws_event EXCEPT ![c] = [mid |-> mid, yes |-> y, volume |-> v, now_ts |-> 0]]
    /\ ws_update' = [ws_update EXCEPT ![c] = "pending"]
    /\ IF CanAcquireNow(_db_write_lock)
       THEN /\ _db_write_lock' = Acquired(_db_write_lock)
            /\ pc' = [pc EXCEPT ![c] = "ws_update"]
       ELSE /\ _db_write_lock' = Enqueued(_db_write_lock, c)
            /\ pc' = [pc EXCEPT ![c] = "ws_wait"]
    /\ UNCHANGED <<_cycle_lock, dbVars, subscribed, connected, clock, _last_history_ts,
                   affected, updates_to_broadcast, stream_rows, rfVars, cycleLocals,
                   trigVars, cycles, refreshes>>
    /\ UNCHANGED <<matchVars, clientVars, extVars>>

WsLockResume(c) ==
    /\ pc[c] = "ws_wait"
    /\ IsWoken(_db_write_lock, c)
    /\ _db_write_lock' = Resumed(_db_write_lock, c)
    /\ pc' = [pc EXCEPT ![c] = "ws_update"]
    /\ UNCHANGED <<_cycle_lock, dbVars, wsVars, rfVars, cycleLocals, trigVars, counters>>
    /\ UNCHANGED <<matchVars, clientVars, extVars>>

\* the volume column after the UPDATE of the event's listing: the statement
\* does not set it
VolumeAfterEvent_Trade(mid, v) == [volume EXCEPT ![mid] = v]
VolumeAfterEvent(mid, v) == volume

\* now_ts = time.monotonic();
\* 1. UPDATE markets SET yes_price, no_price, last_updated WHERE id = ?
\* 2. SELECT the matches of the listing with both sides' yes prices (LEFT
\*    JOIN: NULL for a side whose markets row is missing)
WsUpdateMarket(c) ==
    /\ pc[c] = "ws_update"
    /\ LET mid == ws_event[c].mid
           after == [m \in Listings |-> IF m = mid /\ markets[m] # NoRow
                                         THEN ws_event[c].yes ELSE markets[m]]
       IN /\ markets' = after
          /\ volume' = VolumeAfterEvent(mid, ws_event[c].volume)
          /\ affected' = [affected EXCEPT ![c] =
                {[id |-> id, poly_yes |-> after[PairOfId(id)[1]],
                  kalshi_yes |-> after[PairOfId(id)[2]]] : id \in MatchesOf(mid)}]
    /\ ws_event' = [ws_event EXCEPT ![c].now_ts = clock]
    /\ pc' = [pc EXCEPT ![c] = "ws_matches"]
    /\ UNCHANGED <<_cycle_lock, _db_write_lock, matches, match_row, next_match_id,
                   price_history, market_embeddings, subscribed, connected, clock,
                   _last_history_ts, updates_to_broadcast, ws_update, stream_rows,
                   rfVars, cycleLocals, trigVars, counters>>
    /\ UNCHANGED <<matchVars, clientVars, extVars>>

\* a handler that appends a history row on every event
HistoryDue_Always(id, now_ts) == TRUE

\* if now_ts - _last_history_ts.get(match_id, 0.0) >= _HISTORY_INTERVAL
HistoryDue(id, now_ts) == now_ts - _last_history_ts[id] >= _HISTORY_INTERVAL

\* poly_yes = match["poly_yes"] or 0.0; kalshi_yes likewise;
\* if not poly_yes or not kalshi_yes: continue
Skipped(row) == row.poly_yes \in {NoRow, 0} \/ row.kalshi_yes \in {NoRow, 0}

\* the columns UPDATE matches SET spread, fee_adjusted_spread, polymarket_yes,
\* kalshi_yes, last_updated gives the row
UpdatedFields(old, poly_yes, kalshi_yes) ==
    [old EXCEPT !.polymarket_yes = poly_yes, !.kalshi_yes = kalshi_yes,
                !.spread = calculate_spread(poly_yes, kalshi_yes).raw_spread,
                !.fee_adjusted_spread = calculate_spread(poly_yes, kalshi_yes).fee_adjusted_spread]

\* the ids of a set of selected rows, in the order of the SELECT
RECURSIVE IdSeq(_)
IdSeq(ids) ==
    IF ids = {} THEN <<>>
    ELSE LET least == CHOOSE i \in ids : \A j \in ids : i <= j
         IN <<least>> \o IdSeq(ids \ {least})

\* where the task goes when the try block is left: an exception is logged
\* and the function returns; otherwise the broadcast loop follows
BroadcastAfter_Always(ok) == "ws_broadcast"
BroadcastAfter(ok) == IF ok THEN "ws_broadcast" ELSE "ws_idle"

\* the try block is left with or without an exception; the first callback,
\* if there is a payload to send, is invoked in the same step
LeaveUpdate(c, ok, updates) ==
    LET next == IF updates = <<>> THEN "ws_idle" ELSE BroadcastAfter(ok)
    IN /\ pc' = [pc EXCEPT ![c] = next]
       /\ updates_to_broadcast' = [updates_to_broadcast EXCEPT ![c] =
               IF next = "ws_idle" THEN <<>> ELSE updates]
       /\ ws_update' = [ws_update EXCEPT ![c] =
               IF next = "ws_idle" THEN "none" ELSE IF ok THEN "committed" ELSE "failed"]
       /\ _db_write_lock' = Released(_db_write_lock)
       /\ ws_event' = [ws_event EXCEPT ![c] = NoEvent]
       /\ affected' = [affected EXCEPT ![c] = {}]

\* the loop over the selected matches: UPDATE matches SET spread, prices;
\* 3. throttled INSERT INTO price_history, which fails on the foreign key
\* when the match row is gone; the payload of every updated match is
\* collected.  The exception handler returns, and leaving async with
\* releases _db_write_lock
WsUpdateMatches(c) ==
    /\ pc[c] = "ws_matches"
    /\ LET now_ts == ws_event[c].now_ts
           live == {row \in affected[c] : ~Skipped(row)}
           due == {row \in live : HistoryDue(row.id, now_ts)}
           gone == {row \in due : row.id \notin MatchRowIds}
           Write(upd, ins) ==
              /\ match_row' = [id \in MatchIds |->
                    IF id \in MatchRowIds /\ (\E row \in upd : row.id = id)
                    THEN LET row == CHOOSE r \in upd : r.id = id
                         IN UpdatedFields(match_row[id], row.poly_yes, row.kalshi_yes)
                    ELSE match_row[id]]
              /\ price_history' = [id \in MatchIds |->
                    IF \E row \in ins : row.id = id THEN price_history[id] + 1
                    ELSE price_history[id]]
              /\ _last_history_ts' = [id \in MatchIds |->
                    IF \E row \in ins : row.id = id THEN now_ts ELSE _last_history_ts[id]]
              /\ stream_rows' = [id \in MatchIds |->
                    IF \E row \in ins : row.id = id THEN Append(stream_rows[id], now_ts)
                    ELSE stream_rows[id]]
       IN IF gone = {}
          THEN /\ Write(live, due)
               /\ updates_to_broadcast' = [updates_to_broadcast EXCEPT ![c] =
                       IdSeq({row.id : row \in live})]
               /\ pc' = [pc EXCEPT ![c] = "ws_commit"]
               /\ UNCHANGED <<_db_write_lock, ws_event, affected, ws_update>>
          ELSE \E failed \in gone, before \in SUBSET (live \ gone) :
               /\ Write(before \cup {failed}, before \cap due)
               /\ LeaveUpdate(c, FALSE, IdSeq({row.id : row \in before}))
    /\ UNCHANGED <<_cycle_lock, markets, volume, matches, next_match_id, market_embeddings,
                   subscribed, connected, clock, rfVars, cycleLocals, trigVars, counters>>
    /\ UNCHANGED <<matchVars, clientVars, extVars>>

\* await db.commit(), which can raise; the async with block ends and
\* releases _db_write_lock
WsCommit(c) ==
    /\ pc[c] = "ws_commit"
    /\ \E ok \in BOOLEAN : LeaveUpdate(c, ok, updates_to_broadcast[c])
    /\ UNCHANGED <<_cycle_lock, dbVars, subscribed, connected, clock, _last_history_ts,
                   stream_rows, rfVars, cycleLocals, trigVars, counters>>
    /\ UNCHANGED <<matchVars, clientVars, extVars>>

\* await cb(match_id, payload) for the one registered callback (main.py
\* registers the /ws connection manager's broadcast): the callback invoked for
\* the first pending payload returns or raises, the exception is logged, and
\* the loop invokes the callback for the next payload or the handler returns
WsBroadcastReturn(c) ==
    /\ pc[c] = "ws_broadcast"
    /\ updates_to_broadcast' = [updates_to_broadcast EXCEPT ![c] = Tail(@)]
    /\ IF Tail(updates_to_broadcast[c]) = <<>>
       THEN /\ pc' = [pc EXCEPT ![c] = "ws_idle"]
            /\ ws_update' = [ws_update EXCEPT ![c] = "none"]
       ELSE UNCHANGED <<pc, ws_update>>
    /\ UNCHANGED <<_cycle_lock, _db_write_lock, dbVars, subscribed, connected, clock,
                   _last_history_ts, ws_event, affected, stream_rows, rfVars, cycleLocals,
                   trigVars, counters>>
    /\ UNCHANGED <<matchVars, clientVars, extVars>>

\* time.monotonic() advances, by less than a throttle interval or by one
Tick ==
    /\ \E d \in {10, _HISTORY_INTERVAL} :
         /\ clock + d <= (MaxTicks + 1) * _HISTORY_INTERVAL
         /\ clock' = clock + d
    /\ UNCHANGED <<pc, _cycle_lock, _db_write_lock, dbVars, subscribed, connected,
                   _last_history_ts, ws_event, affected, updates_to_broadcast, ws_update,
                   stream_rows, rfVars, cycleLocals, trigVars, counters>>
    /\ UNCHANGED <<matchVars, clientVars, extVars>>

\* ------------------------------------------------------------------------
\* poller._price_refresh_loop and price_refresh.refresh_prices
\* ------------------------------------------------------------------------
\* ws_manager.both_connected()
both_connected_Either == \E c \in WsClients : connected[c]
both_connected == \A c \in WsClients : connected[c]

\* one loop iteration with both_connected() false: refresh_prices() selects
\* the matches (at most _MAX_MATCHES_TO_REFRESH, more than this model holds)
\* and returns at once when there are none; with both clients connected the
\* iteration only sleeps
RefreshStart ==
    /\ pc[Refresh] = "rf_sleep"
    /\ ~both_connected
    /\ refreshes < MaxRefreshes
    /\ refreshes' = refreshes + 1
    /\ rf_matches' = {[id |-> matches[pr], pair |-> pr] : pr \in {q \in Pairs : matches[q] # NoRow}}
    /\ pc' = [pc EXCEPT ![Refresh] = IF MatchRowIds = {} THEN "rf_sleep" ELSE "rf_fetch"]
    /\ rf_outcome' = "rest"
    /\ UNCHANGED rest_rows
    /\ UNCHANGED <<extVars, clientVars, _cycle_lock, _db_write_lock, dbVars, wsVars, cycleLocals, trigVars,
                   cycles, events>>
    /\ UNCHANGED <<matchVars, clientVars, extVars>>

\* one loop iteration with both_connected() true: "Price refresh skipped" is
\* logged and the iteration only sleeps
RefreshSkip ==
    /\ pc[Refresh] = "rf_sleep"
    /\ both_connected
    /\ refreshes < MaxRefreshes
    /\ refreshes' = refreshes + 1
    /\ rf_outcome' = "skipped"
    /\ UNCHANGED <<pc, _cycle_lock, _db_write_lock, dbVars, wsVars, rf_matches, rest_rows, cycleLocals,
                   trigVars, cycles, events>>
    /\ UNCHANGED <<matchVars, clientVars, extVars>>

\* 3. the price of each market is fetched, or its fetch fails (NoRow);
\* 4. for every selected match with both prices: UPDATE markets (both
\* sides), UPDATE matches, INSERT INTO price_history, which fails on the
\* foreign key when the match row is gone (after that match's markets were
\* updated); the exception ends the pass and is logged by the loop
RefreshWrite ==
    /\ pc[Refresh] = "rf_fetch"
    /\ \E prices \in [{l \in Listings : \E m \in rf_matches : l = m.pair[1] \/ l = m.pair[2]}
                        -> RefreshPrices \cup {NoRow}], vol \in RestVolumes :
         LET todo == {m \in rf_matches : prices[m.pair[1]] # NoRow /\ prices[m.pair[2]] # NoRow}
             gone == {m \in todo : m.id \notin MatchRowIds}
             Write(upd, done) ==
                /\ markets' = [l \in Listings |->
                      IF markets[l] # NoRow /\ (\E m \in upd : l = m.pair[1] \/ l = m.pair[2])
                      THEN prices[l] ELSE markets[l]]
                /\ volume' = [l \in Listings |->
                      IF markets[l] # NoRow /\ (\E m \in upd : l = m.pair[1] \/ l = m.pair[2])
                      THEN vol ELSE volume[l]]
                /\ match_row' = [id \in MatchIds |->
                      IF id \in MatchRowIds /\ (\E m \in upd : m.id = id)
                      THEN LET m == CHOOSE r \in upd : r.id = id
                           IN [UpdatedFields(match_row[id], prices[m.pair[1]], prices[m.pair[2]])
                                 EXCEPT !.polymarket_volume = vol, !.kalshi_volume = vol]
                      ELSE match_row[id]]
                /\ price_history' = [id \in MatchIds |->
                      IF \E m \in done : m.id = id THEN price_history[id] + 1
                      ELSE price_history[id]]
                /\ rest_rows' = [id \in MatchIds |->
                      IF \E m \in done : m.id = id THEN Append(rest_rows[id], clock)
                      ELSE rest_rows[id]]
         IN IF gone = {}
            THEN /\ Write(todo, todo)
                 /\ pc' = [pc EXCEPT ![Refresh] = "rf_commit"]
                 /\ UNCHANGED <<rf_matches, rf_outcome>>
            ELSE \E failed \in gone, done \in SUBSET (todo \ gone) :
                 /\ Write(done \cup {failed}, done)
                 /\ pc' = [pc EXCEPT ![Refresh] = "rf_sleep"]
                 /\ rf_matches' = {}
                 /\ UNCHANGED rf_outcome
    /\ UNCHANGED <<_cycle_lock, _db_write_lock, matches, next_match_id, market_embeddings,
                   wsVars, cycleLocals, trigVars, counters>>
    /\ UNCHANGED <<matchVars, clientVars, extVars>>

\* await db.commit(); refresh_prices returns
RefreshCommit ==
    /\ pc[Refresh] = "rf_commit"
    /\ pc' = [pc EXCEPT ![Refresh] = "rf_sleep"]
    /\ rf_matches' = {}
    /\ UNCHANGED <<rf_outcome, rest_rows>>
    /\ UNCHANGED <<extVars, clientVars, _cycle_lock, _db_write_lock, dbVars, wsVars, cycleLocals, trigVars, counters>>
    /\ UNCHANGED <<matchVars, clientVars, extVars>>

\* ------------------------------------------------------------------------
\* matcher.match_markets.  It is called by _run_cycle only, under
\* _cycle_lock, so its calls never overlap.
\* ------------------------------------------------------------------------
\* hashlib.md5(f"{poly_id}|{kalshi_id}") (md5 taken as collision free)
_cache_key(poly_id, kalshi_id) == poly_id \o "|" \o kalshi_id

KeyOf(pr) == _cache_key(pr[1], pr[2])

\* _get_cached_match_keys(db): SELECT polymarket_id, kalshi_id FROM matches
_get_cached_match_keys == {KeyOf(pr) : pr \in {q \in Pairs : matches[q] # NoRow}}

\* cached_keys.add(key) of pass 0
CachedAfterDet_Forget(keys, key) == keys
CachedAfterDet(keys, key) == keys \cup {key}

\* Pass 0: the loop over det_raw
RECURSIVE DetPass(_, _)
DetPass(raw, acc) ==
    IF raw = <<>> THEN acc
    ELSE LET d == Head(raw)
             key == KeyOf(d)
         IN IF key \in acc.cached_keys
            THEN DetPass(Tail(raw), [acc EXCEPT !.deterministic_pairs = @ \cup {d}])
            ELSE DetPass(Tail(raw),
                         [cached_keys |-> CachedAfterDet(acc.cached_keys, key),
                          det_confirmed |-> Append(acc.det_confirmed, d),
                          deterministic_pairs |-> acc.deterministic_pairs \cup {d}])

SeqRange(q) == {q[i] : i \in 1..Len(q)}

\* the merge loop: keyword candidates not yet seen are appended
RECURSIVE MergeKw(_, _, _)
MergeKw(cands, seen, kw) ==
    IF kw = <<>> THEN cands
    ELSE IF Head(kw) \notin seen
         THEN MergeKw(Append(cands, Head(kw)), seen \cup {Head(kw)}, Tail(kw))
         ELSE MergeKw(cands, seen, Tail(kw))

\* lists of distinct pairs, as the candidate searches return them
DistinctSeqs ==
    {<<>>} \cup {<<pr>> : pr \in Pairs}
           \cup {<<ab[1], ab[2]>> : ab \in {q \in Pairs \X Pairs : q[1] # q[2]}}

\* det_raw: one entry per (Polymarket market, aligned Kalshi market)
DetSeqs == DistinctSeqs \cup {<<pr, pr>> : pr \in Pairs}

\* What one confirmation of a candidate comes to.  "not_sent": _pass2_confirm
\* returns before _call_groq (confidence below _CONFIDENCE_THRESHOLD or a
\* market missing from the lookup).  "absent": _call_groq returned None
\* (service unreachable, 4xx, retries exhausted).  "malformed": the reply text
\* is not JSON.  "raises": an exception leaves _pass2_confirm (the HTTP body
\* is not JSON, or the reply is JSON but not an object).
Outcomes == {"not_sent", "aligned", "aligned_sports_inverted", "inverted", "rejected",
             "absent", "malformed", "raises"}

ValidRejections == {"rejected", "inverted", "aligned_sports_inverted"}

NoAnswer == {"absent", "malformed", "raises"}

NoResponse == [pair |-> <<"none", "none">>, outcome |-> "none"]

\* _pass2_confirm: a match dict, None, or an exception
_pass2_confirm(o) ==
    IF o \in {"aligned", "aligned_sports_inverted"} THEN "match"
    ELSE IF o = "raises" THEN "raise" ELSE "none"

\* if key in _rejected_keys
IsRejected_Never(key) == FALSE
IsRejected(key) == key \in _rejected_keys

\* match_markets up to the start of pass 2: cached keys, pass 0, pass 0b,
\* pass 1, candidate merge
MatchMarketsCall ==
    /\ pc[Matcher] = "mm_idle"
    /\ match_calls < MaxMatchCalls
    /\ match_calls' = match_calls + 1
    /\ \E dr \in DetSeqs, ec \in DistinctSeqs, kc \in DistinctSeqs :
         LET p0 == DetPass(dr, [cached_keys |-> _get_cached_match_keys,
                                det_confirmed |-> <<>>, deterministic_pairs |-> {}])
             kw == SelectSeq(kc, LAMBDA c : c \notin p0.deterministic_pairs)
         IN /\ det_raw' = dr
            /\ embedding_candidates' = ec
            /\ kw_candidates' = kc
            /\ cached_keys' = p0.cached_keys
            /\ det_confirmed' = p0.det_confirmed
            /\ deterministic_pairs' = p0.deterministic_pairs
            /\ candidates' = MergeKw(ec, SeqRange(ec) \cup p0.deterministic_pairs, kw)
    /\ pass2_confirmed' = <<>>
    /\ llm_calls' = 0
    /\ groq_calls' = <<>>
    /\ deferred' = {}
    /\ pc' = [pc EXCEPT ![Matcher] = "mm_pass2"]
    /\ UNCHANGED <<_rejected_keys, response>>
    /\ UNCHANGED <<extVars, clientVars, _cycle_lock, _db_write_lock, dbVars, wsVars, rfVars, cycleLocals,
                   trigVars, counters>>

\* if llm_calls >= _MAX_CONFIRMATIONS_PER_CYCLE: break
Pass2CapReached ==
    /\ pc[Matcher] = "mm_pass2"
    /\ candidates # <<>>
    /\ llm_calls >= _MAX_CONFIRMATIONS_PER_CYCLE
    /\ deferred' = SeqRange(candidates)
    /\ pc' = [pc EXCEPT ![Matcher] = "mm_return"]
    /\ UNCHANGED <<_rejected_keys, matchLocals, groq_calls, response, match_calls>>
    /\ UNCHANGED <<extVars, clientVars, _cycle_lock, _db_write_lock, dbVars, wsVars, rfVars, cycleLocals,
                   trigVars, counters>>

\* if key in cached_keys: continue
Pass2Cached ==
    /\ pc[Matcher] = "mm_pass2"
    /\ candidates # <<>>
    /\ llm_calls < _MAX_CONFIRMATIONS_PER_CYCLE
    /\ KeyOf(Head(candidates)) \in cached_keys
    /\ candidates' = Tail(candidates)
    /\ UNCHANGED <<pc, _rejected_keys, cached_keys, deterministic_pairs, det_raw,
                   embedding_candidates, kw_candidates, det_confirmed, pass2_confirmed,
                   llm_calls, groq_calls, response, deferred, match_calls>>
    /\ UNCHANGED <<extVars, clientVars, _cycle_lock, _db_write_lock, dbVars, wsVars, rfVars, cycleLocals,
                   trigVars, counters>>

\* if key in _rejected_keys: continue
Pass2Rejected ==
    /\ pc[Matcher] = "mm_pass2"
    /\ candidates # <<>>
    /\ llm_calls < _MAX_CONFIRMATIONS_PER_CYCLE
    /\ KeyOf(Head(candidates)) \notin cached_keys
    /\ IsRejected(KeyOf(Head(candidates)))
    /\ candidates' = Tail(candidates)
    /\ UNCHANGED <<pc, _rejected_keys, cached_keys, deterministic_pairs, det_raw,
                   embedding_candidates, kw_candidates, det_confirmed, pass2_confirmed,
                   llm_calls, groq_calls, response, deferred, match_calls>>
    /\ UNCHANGED <<extVars, clientVars, _cycle_lock, _db_write_lock, dbVars, wsVars, rfVars, cycleLocals,
                   trigVars, counters>>

\* Pass 1.5 / 1.6: end dates or numeric thresholds do not agree
Pass2Prefilter ==
    /\ pc[Matcher] = "mm_pass2"
    /\ candidates # <<>>
    /\ llm_calls < _MAX_CONFIRMATIONS_PER_CYCLE
    /\ KeyOf(Head(candidates)) \notin cached_keys
    /\ ~IsRejected(KeyOf(Head(candidates)))
    /\ _rejected_keys' = _rejected_keys \cup {KeyOf(Head(candidates))}
    /\ candidates' = Tail(candidates)
    /\ UNCHANGED <<pc, cached_keys, deterministic_pairs, det_raw,
                   embedding_candidates, kw_candidates, det_confirmed, pass2_confirmed,
                   llm_calls, groq_calls, response, deferred, match_calls>>
    /\ UNCHANGED <<extVars, clientVars, _cycle_lock, _db_write_lock, dbVars, wsVars, rfVars, cycleLocals,
                   trigVars, counters>>

\* try: result = await _pass2_confirm(cand, all_markets); llm_calls += 1; ...
\* except Exception: errors += 1
Pass2Confirm ==
    /\ pc[Matcher] = "mm_pass2"
    /\ candidates # <<>>
    /\ llm_calls < _MAX_CONFIRMATIONS_PER_CYCLE
    /\ KeyOf(Head(candidates)) \notin cached_keys
    /\ ~IsRejected(KeyOf(Head(candidates)))
    /\ \E o \in Outcomes :
         LET cand == Head(candidates)
             result == _pass2_confirm(o)
         IN /\ groq_calls' = IF o # "not_sent" THEN Append(groq_calls, cand) ELSE groq_calls
            /\ response' = IF o # "not_sent" THEN [pair |-> cand, outcome |-> o] ELSE response
            /\ llm_calls' = IF result = "raise" THEN llm_calls ELSE llm_calls + 1
            /\ _rejected_keys' =
                  IF result = "none" \/ (result = "match" /\ o = "aligned_sports_inverted")
                  THEN _rejected_keys \cup {KeyOf(cand)} ELSE _rejected_keys
            /\ pass2_confirmed' =
                  IF result = "match" /\ o = "aligned"
                  THEN Append(pass2_confirmed, cand) ELSE pass2_confirmed
    /\ candidates' = Tail(candidates)
    /\ UNCHANGED <<pc, cached_keys, deterministic_pairs, det_raw, embedding_candidates,
                   kw_candidates, det_confirmed, deferred, match_calls>>
    /\ UNCHANGED <<extVars, clientVars, _cycle_lock, _db_write_lock, dbVars, wsVars, rfVars, cycleLocals,
                   trigVars, counters>>

\* the rows _run_cycle's upsert loop leaves in matches for the returned list
RECURSIVE Upserted(_, _, _)
Upserted(rows, nextid, returned) ==
    IF returned = <<>> THEN [rows |-> rows, nextid |-> nextid]
    ELSE IF rows[Head(returned)] # NoRow
         THEN Upserted(rows, nextid, Tail(returned))
         ELSE Upserted([rows EXCEPT ![Head(returned)] = nextid], nextid + 1, Tail(returned))

\* return det_confirmed + confirmed; _run_cycle persists the returned matches,
\* or fails before it does (SpecMatch follows the keys of the rows, not their
\* price columns); the locals of the call are gone
MatchMarketsReturn ==
    /\ \/ pc[Matcher] = "mm_return"
       \/ pc[Matcher] = "mm_pass2" /\ candidates = <<>>
    /\ \E persisted \in BOOLEAN :
         LET up == Upserted(matches, next_match_id, det_confirmed \o pass2_confirmed)
         IN /\ matches' = IF persisted THEN up.rows ELSE matches
            /\ next_match_id' = IF persisted THEN up.nextid ELSE next_match_id
    /\ pc' = [pc EXCEPT ![Matcher] = "mm_idle"]
    /\ cached_keys' = {}
    /\ deterministic_pairs' = {}
    /\ det_raw' = <<>>
    /\ embedding_candidates' = <<>>
    /\ kw_candidates' = <<>>
    /\ candidates' = <<>>
    /\ det_confirmed' = <<>>
    /\ pass2_confirmed' = <<>>
    /\ llm_calls' = 0
    /\ groq_calls' = <<>>
    /\ UNCHANGED <<markets, volume, match_row, price_history, market_embeddings>>
    /\ UNCHANGED <<_rejected_keys, response, deferred, match_calls>>
    /\ UNCHANGED <<extVars, clientVars, _cycle_lock, _db_write_lock, wsVars, rfVars, cycleLocals,
                   trigVars, counters>>

\* ------------------------------------------------------------------------
\* Specifications
\* ------------------------------------------------------------------------
StartPc ==
    [p \in Procs |-> IF p = Disc THEN "loop"
                     ELSE IF p \in Triggers THEN "idle"
                     ELSE IF p \in WsClients THEN "ws_idle"
                     ELSE IF p = Refresh THEN "rf_sleep" ELSE "mm_idle"]

\* no match_markets call has been made: the rejection cache is empty
MatcherStartup ==
    /\ _rejected_keys = {}
    /\ cached_keys = {}
    /\ deterministic_pairs = {}
    /\ det_raw = <<>>
    /\ embedding_candidates = <<>>
    /\ kw_candidates = <<>>
    /\ candidates = <<>>
    /\ det_confirmed = <<>>
    /\ pass2_confirmed = <<>>
    /\ llm_calls = 0
    /\ groq_calls = <<>>
    /\ response = NoResponse
    /\ deferred = {}
    /\ match_calls = 0

\* ------------------------------------------------------------------------
\* Streaming clients (ws_polymarket.PolymarketWSClient and
\* ws_kalshi.KalshiWSClient, which share one structure): the _run task
\* with its reconnect loop, subscribe / unsubscribe, stop.
\* ------------------------------------------------------------------------
MaxConnects == 3     \* connection attempts explored, both clients together
MaxApiCalls == 2     \* subscribe / unsubscribe calls explored

\* settings.WS_RECONNECT_MAX_SECONDS
WS_RECONNECT_MAX_SECONDS == 60

NoApiCall == [client |-> "none", op |-> "none", ids |-> {}]

\* the subscribe message for a set of identifiers
SubscribeMsg(ids) == [op |-> "subscribe", ids |-> ids]
UnsubscribeMsg(ids) == [op |-> "unsubscribe", ids |-> ids]

\* the client object after __init__
ClientStartup ==
    /\ _running = [c \in WsClients |-> FALSE]
    /\ _ws = [c \in WsClients |-> "None"]
    /\ _task = [c \in WsClients |-> "none"]
    /\ backoff = [c \in WsClients |-> 0]
    /\ _subscribed_ids = [c \in WsClients |-> {}]
    /\ wire = [c \in WsClients |-> <<>>]
    /\ handled = [c \in WsClients |-> FALSE]
    /\ last_delay = [c \in WsClients |-> 0]
    /\ api_call = NoApiCall
    /\ stopping = [c \in WsClients |-> "no"]
    /\ attempts = 0
    /\ api_calls = 0

\* what the client actions leave alone
serverVars == <<pc, _cycle_lock, _db_write_lock, dbVars, subscribed, clock,
                _last_history_ts, ws_event, affected, updates_to_broadcast, ws_update,
                stream_rows, rfVars, cycleLocals, trigVars, counters, matchVars,
                extVars>>

\* self._connected = False
Dropped_Kept(c) == connected
Dropped(c) == [connected EXCEPT ![c] = FALSE]

\* subscribe(): new = [t for t in ids if t not in tracked]
NewIds_All(c, ids) == ids
NewIds(c, ids) == ids \ _subscribed_ids[c]

\* top of _run's loop, "while self._running": the next connection attempt
\* starts at once, or the task ends
LoopTop(c, running) ==
    IF running
    THEN /\ attempts < MaxConnects
         /\ attempts' = attempts + 1
         /\ _task' = [_task EXCEPT ![c] = "connecting"]
    ELSE /\ _task' = [_task EXCEPT ![c] = "done"]
         /\ UNCHANGED attempts

\* _run's "except Exception": the flag is cleared, then the task sleeps
\* for the current backoff, unless stop() has been called
ExceptException(c) ==
    /\ connected' = Dropped(c)
    /\ IF _running[c]
       THEN /\ _task' = [_task EXCEPT ![c] = "sleeping"]
            /\ last_delay' = [last_delay EXCEPT ![c] = backoff[c]]
       ELSE /\ _task' = [_task EXCEPT ![c] = "done"]
            /\ UNCHANGED last_delay
    /\ UNCHANGED <<backoff, attempts>>

\* start(), and the task's first step up to the await of websockets.connect
ClientStart(c) ==
    /\ _task[c] = "none"
    /\ ~_running[c]
    /\ _running' = [_running EXCEPT ![c] = TRUE]
    /\ backoff' = [backoff EXCEPT ![c] = 1]
    /\ LoopTop(c, TRUE)
    /\ UNCHANGED <<_ws, _subscribed_ids, wire, handled, last_delay, api_call, stopping,
                   api_calls, connected>>
    /\ UNCHANGED serverVars

\* websockets.connect succeeds: the socket and the flag are set and, when
\* identifiers are tracked, one subscribe message for all of them is sent
ConnectOk(c) ==
    /\ _task[c] = "connecting"
    /\ _ws' = [_ws EXCEPT ![c] = "open"]
    /\ connected' = [connected EXCEPT ![c] = TRUE]
    /\ handled' = [handled EXCEPT ![c] = FALSE]
    /\ IF _subscribed_ids[c] # {}
       THEN /\ wire' = [wire EXCEPT ![c] = <<SubscribeMsg(_subscribed_ids[c])>>]
            /\ _task' = [_task EXCEPT ![c] = "resubscribing"]
       ELSE /\ wire' = [wire EXCEPT ![c] = <<>>]
            /\ _task' = [_task EXCEPT ![c] = "receiving"]
    /\ UNCHANGED <<_running, backoff, _subscribed_ids, last_delay, api_call, stopping,
                   attempts, api_calls>>
    /\ UNCHANGED serverVars

\* websockets.connect raises
ConnectFails(c) ==
    /\ _task[c] = "connecting"
    /\ ExceptException(c)
    /\ UNCHANGED <<_running, _ws, _subscribed_ids, wire, handled, api_call, stopping,
                   api_calls>>
    /\ UNCHANGED serverVars

\* the send of the resubscribe message returns
ResubscribeSent(c) ==
    /\ _task[c] = "resubscribing"
    /\ _task' = [_task EXCEPT ![c] = "receiving"]
    /\ UNCHANGED <<_running, _ws, backoff, _subscribed_ids, wire, handled, last_delay,
                   api_call, stopping, attempts, api_calls, connected>>
    /\ UNCHANGED serverVars

\* the send of the resubscribe message raises: it stands outside the
\* try/finally, so the exception reaches _run with _ws still set.  The
\* socket is closed by then, so leaving the "async with" does not wait.
ResubscribeFails(c) ==
    /\ _task[c] = "resubscribing"
    /\ _ws' = [_ws EXCEPT ![c] = "closed"]
    /\ ExceptException(c)
    /\ UNCHANGED <<_running, _subscribed_ids, wire, handled, api_call, stopping, api_calls>>
    /\ UNCHANGED serverVars

\* "async for raw_msg in ws": a message arrives and _handle_message returns
ReceiveMessage(c) ==
    /\ _task[c] = "receiving"
    /\ _ws[c] = "open"
    /\ handled' = [handled EXCEPT ![c] = TRUE]
    /\ UNCHANGED <<_running, _ws, _task, backoff, _subscribed_ids, wire, last_delay,
                   api_call, stopping, attempts, api_calls, connected>>
    /\ UNCHANGED serverVars

\* _handle_message raises an exception it does not catch (AttributeError
\* for a JSON array of scalars): finally, then _run's except Exception
HandlerRaises(c) ==
    /\ _task[c] = "receiving"
    /\ _ws[c] = "open"
    /\ handled' = [handled EXCEPT ![c] = TRUE]
    /\ _ws' = [_ws EXCEPT ![c] = "None"]
    /\ ExceptException(c)
    /\ UNCHANGED <<_running, _subscribed_ids, wire, api_call, stopping, api_calls>>
    /\ UNCHANGED serverVars

\* the connection is lost while receiving: ConnectionClosed is caught (or
\* the iteration ends), finally clears flag and socket, _connect_and_loop
\* returns, _run resets backoff ("reset on clean exit") and loops
ConnectionLost(c) ==
    /\ _task[c] = "receiving"
    /\ connected' = Dropped(c)
    /\ _ws' = [_ws EXCEPT ![c] = "None"]
    /\ backoff' = [backoff EXCEPT ![c] = 1]
    /\ last_delay' = [last_delay EXCEPT ![c] = 0]
    /\ LoopTop(c, _running[c])
    /\ UNCHANGED <<_running, _subscribed_ids, wire, handled, api_call, stopping, api_calls>>
    /\ UNCHANGED serverVars

\* asyncio.sleep(backoff) returns: backoff doubles up to the ceiling
BackoffElapsed(c) ==
    /\ _task[c] = "sleeping"
    /\ backoff' = [backoff EXCEPT ![c] = Min(backoff[c] * 2, WS_RECONNECT_MAX_SECONDS)]
    /\ LoopTop(c, _running[c])
    /\ UNCHANGED <<_running, _ws, _subscribed_ids, wire, handled, last_delay, api_call,
                   stopping, api_calls, connected>>
    /\ UNCHANGED serverVars

\* subscribe(ids): a send that raises is logged
ClientSubscribe(c, ids) ==
    /\ api_calls < MaxApiCalls
    /\ api_calls' = api_calls + 1
    /\ api_call' = [client |-> c, op |-> "subscribe", ids |-> ids]
    /\ LET new == NewIds(c, ids)
       IN  IF new = {}
           THEN UNCHANGED <<_subscribed_ids, wire>>
           ELSE /\ _subscribed_ids' = [_subscribed_ids EXCEPT ![c] = @ \cup new]
                /\ IF _ws[c] # "None" /\ connected[c]
                   THEN IF _ws[c] = "open"
                        THEN \E sent \in BOOLEAN :
                                wire' = [wire EXCEPT ![c] =
                                            IF sent THEN Append(@, SubscribeMsg(new)) ELSE @]
                        ELSE UNCHANGED wire
                   ELSE UNCHANGED wire
    /\ UNCHANGED <<_running, _ws, _task, backoff, handled, last_delay, stopping, attempts,
                   connected>>
    /\ UNCHANGED serverVars

\* unsubscribe(ids)
ClientUnsubscribe(c, ids) ==
    /\ api_calls < MaxApiCalls
    /\ api_calls' = api_calls + 1
    /\ api_call' = [client |-> c, op |-> "unsubscribe", ids |-> ids]
    /\ LET to_remove == ids \cap _subscribed_ids[c]
       IN  IF to_remove = {}
           THEN UNCHANGED <<_subscribed_ids, wire>>
           ELSE /\ _subscribed_ids' = [_subscribed_ids EXCEPT ![c] = @ \ to_remove]
                /\ IF _ws[c] # "None" /\ connected[c]
                   THEN IF _ws[c] = "open"
                        THEN \E sent \in BOOLEAN :
                                wire' = [wire EXCEPT ![c] =
                                            IF sent THEN Append(@, UnsubscribeMsg(to_remove)) ELSE @]
                        ELSE UNCHANGED wire
                   ELSE UNCHANGED wire
    /\ UNCHANGED <<_running, _ws, _task, backoff, handled, last_delay, stopping, attempts,
                   connected>>
    /\ UNCHANGED serverVars

\* stop() when _ws refers to no open socket: close() has nothing to wait
\* for, the task is cancelled in its connect or its sleep
StopNow(c) ==
    /\ _running[c]
    /\ _ws[c] # "open"
    /\ _running' = [_running EXCEPT ![c] = FALSE]
    /\ _task' = [_task EXCEPT ![c] = "done"]
    /\ stopping' = [stopping EXCEPT ![c] = "done"]
    /\ UNCHANGED <<_ws, backoff, _subscribed_ids, wire, handled, last_delay, api_call,
                   attempts, api_calls, connected>>
    /\ UNCHANGED serverVars

\* stop() with an open socket: _running = False, then await self._ws.close()
StopClose(c) ==
    /\ _running[c]
    /\ _ws[c] = "open"
    /\ _running' = [_running EXCEPT ![c] = FALSE]
    /\ _ws' = [_ws EXCEPT ![c] = "closed"]
    /\ stopping' = [stopping EXCEPT ![c] = "closing"]
    /\ UNCHANGED <<_task, backoff, _subscribed_ids, wire, handled, last_delay, api_call,
                   attempts, api_calls, connected>>
    /\ UNCHANGED serverVars

\* close() returns and stop() cancels and awaits the task.  The closure
\* resumes the task's pending send or receive before it resumes stop(), so
\* the task has left the socket by now.
StopCancel(c) ==
    /\ stopping[c] = "closing"
    /\ _task[c] \notin {"resubscribing", "receiving"}
    /\ _task' = [_task EXCEPT ![c] = "done"]
    /\ stopping' = [stopping EXCEPT ![c] = "done"]
    /\ UNCHANGED <<_running, _ws, backoff, _subscribed_ids, wire, handled, last_delay,
                   api_call, attempts, api_calls, connected>>
    /\ UNCHANGED serverVars

\* ------------------------------------------------------------------------
\* ws_manager.sync_subscriptions: the call of ws_manager.start() and the
\* call at the end of each discovery cycle.  The cycle's calls follow one
\* another (they run under _cycle_lock); the startup call can overlap one.
\* ------------------------------------------------------------------------
MaxSyncs == 2        \* sync_subscriptions calls explored
MaxChanges == 2      \* changes of the persisted match set explored

Syncs == {"startup", "cycle"}

SyncIdle == [at |-> "none", call |-> 0, behind |-> FALSE]

\* the four client calls of sync_subscriptions, in the order of the source
SyncCalls ==
    <<[client |-> "poly", op |-> "subscribe"], [client |-> "poly", op |-> "unsubscribe"],
      [client |-> "kalshi", op |-> "subscribe"], [client |-> "kalshi", op |-> "unsubscribe"]>>

SyncStartup ==
    /\ sync_pc = [s \in Syncs |-> SyncIdle]
    /\ sync_desired = [s \in Syncs |-> {}]
    /\ sync_new = [s \in Syncs |-> {}]
    /\ sync_removed = [s \in Syncs |-> {}]
    /\ fresh = FALSE
    /\ syncs = 0
    /\ changes = 0

\* The client calls of one sync from call k on, up to the first send that
\* suspends the caller or to the end: the set of outcomes, each with the
\* tracked sets and wires it leaves and the call it is suspended in (0 when
\* the sync has returned).  A call is skipped for an empty list; the client
\* returns before touching anything when no identifier is new / tracked; it
\* awaits a send only when it holds a socket and its flag is set, and that
\* await may or may not suspend; behind a send of the other sync that is
\* pending on the same client it suspends.
SendPending(s, c) ==
    \E t \in Syncs \ {s} : sync_pc[t].at = "send" /\ SyncCalls[sync_pc[t].call].client = c

RECURSIVE SyncOutcomes(_, _, _, _, _, _)
SyncOutcomes(s, k, tr, wr, new, removed) ==
    IF k > Len(SyncCalls)
    THEN {[tracked |-> tr, wire |-> wr, call |-> 0]}
    ELSE LET c == SyncCalls[k].client
             sub == SyncCalls[k].op = "subscribe"
             arg == (IF sub THEN new ELSE removed) \cap ExchangeOf(c)
             eff == IF sub THEN arg \ tr[c] ELSE arg \cap tr[c]
             tr2 == [tr EXCEPT ![c] = IF sub THEN @ \cup eff ELSE @ \ eff]
             msg == IF sub THEN SubscribeMsg(eff) ELSE UnsubscribeMsg(eff)
             wr2 == [wr EXCEPT ![c] = IF _ws[c] = "open" THEN Append(@, msg) ELSE @]
         IN  IF eff = {}
             THEN SyncOutcomes(s, k + 1, tr, wr, new, removed)
             ELSE IF _ws[c] # "None" /\ connected[c]
                  THEN {[tracked |-> tr2, wire |-> wr2, call |-> k]}
                          \cup (IF SendPending(s, c) THEN {}
                                ELSE SyncOutcomes(s, k + 1, tr2, wr2, new, removed))
                  ELSE SyncOutcomes(s, k + 1, tr2, wr, new, removed)

\* position of sync s after an outcome: suspended in a send, or returned
\* (the startup call is made once)
SyncAfter(s, o) ==
    IF o.call # 0
    THEN [at |-> "send", call |-> o.call, behind |-> SendPending(s, SyncCalls[o.call].client)]
    ELSE IF s = "startup" THEN [at |-> "done", call |-> 0, behind |-> FALSE] ELSE SyncIdle

syncFrame == <<pc, _cycle_lock, _db_write_lock, clock, _last_history_ts, ws_event, affected,
               updates_to_broadcast, ws_update, stream_rows, rfVars, cycleLocals, trigVars,
               counters, matchVars, connected, _running, _ws, _task, backoff, handled,
               last_delay, api_call, stopping, attempts, api_calls, frontVars, laterVars>>

\* sync_subscriptions() is called: by ws_manager.start() once both clients
\* are started, or by a discovery cycle after its commit.  Both calls read
\* through the one aiosqlite connection, which executes statements in the
\* order of their submission and resumes the callers in that order: a call
\* that began earlier has computed its diff before this one reads.
SyncBegin(s) ==
    /\ sync_pc[s].at = "none"
    /\ \A t \in Syncs : sync_pc[t].at \notin {"read", "fetched"}
    /\ \A c \in WsClients : _task[c] # "none"
    /\ syncs < MaxSyncs
    /\ syncs' = syncs + 1
    /\ sync_pc' = [sync_pc EXCEPT ![s] = [at |-> "read", call |-> 0, behind |-> FALSE]]
    /\ fresh' = TRUE
    /\ UNCHANGED <<sync_desired, sync_new, sync_removed, changes>>
    /\ UNCHANGED <<dbVars, subscribed, _subscribed_ids, wire>>
    /\ UNCHANGED syncFrame

\* SELECT polymarket_id, kalshi_id FROM matches; SELECT id, clob_token_ids
\* FROM markets: desired_poly, desired_kalshi
SyncRead(s) ==
    /\ sync_pc[s].at = "read"
    /\ sync_desired' = [sync_desired EXCEPT ![s] = DesiredSubscriptions]
    /\ sync_pc' = [sync_pc EXCEPT ![s] = [at |-> "fetched", call |-> 0, behind |-> FALSE]]
    /\ UNCHANGED <<sync_new, sync_removed, fresh, syncs, changes>>
    /\ UNCHANGED <<dbVars, subscribed, _subscribed_ids, wire>>
    /\ UNCHANGED syncFrame

\* the last fetchall returns: the diff against the maps, the update of the
\* maps, and the client calls up to the first send that suspends
SyncApply(s) ==
    /\ sync_pc[s].at = "fetched"
    /\ LET new == sync_desired[s] \ subscribed
           removed == subscribed \ sync_desired[s]
       IN  /\ sync_new' = [sync_new EXCEPT ![s] = new]
           /\ sync_removed' = [sync_removed EXCEPT ![s] = removed]
           /\ subscribed' = (subscribed \cup sync_desired[s]) \ removed
           /\ \E o \in SyncOutcomes(s, 1, _subscribed_ids, wire, new, removed) :
                /\ _subscribed_ids' = o.tracked
                /\ wire' = o.wire
                /\ sync_pc' = [sync_pc EXCEPT ![s] = SyncAfter(s, o)]
    /\ UNCHANGED <<sync_desired, fresh, syncs, changes>>
    /\ UNCHANGED dbVars
    /\ UNCHANGED syncFrame

\* the send the sync was suspended in returns or raises (subscribe and
\* unsubscribe log a failure), after the send it queued behind: the
\* remaining client calls
SyncResume(s) ==
    /\ sync_pc[s].at = "send"
    /\ ~(sync_pc[s].behind /\ SendPending(s, SyncCalls[sync_pc[s].call].client))
    /\ \E o \in SyncOutcomes(s, sync_pc[s].call + 1, _subscribed_ids, wire,
                             sync_new[s], sync_removed[s]) :
            /\ _subscribed_ids' = o.tracked
            /\ wire' = o.wire
            /\ sync_pc' = [sync_pc EXCEPT ![s] = SyncAfter(s, o)]
    /\ UNCHANGED <<sync_desired, sync_new, sync_removed, fresh, syncs, changes>>
    /\ UNCHANGED <<dbVars, subscribed>>
    /\ UNCHANGED syncFrame

\* a discovery cycle, before its own sync, deletes a stale match or
\* persists a new one
MatchSetChanges ==
    /\ sync_pc["cycle"].at = "none"
    /\ changes < MaxChanges
    /\ changes' = changes + 1
    /\ fresh' = FALSE
    /\ \E pr \in Pairs :
          IF matches[pr] # NoRow
          THEN /\ matches' = [matches EXCEPT ![pr] = NoRow]
               /\ match_row' = [match_row EXCEPT ![matches[pr]] = NoFields]
               /\ price_history' = [price_history EXCEPT ![matches[pr]] = 0]
               /\ UNCHANGED next_match_id
          ELSE /\ next_match_id <= MaxMatchId
               /\ matches' = [matches EXCEPT ![pr] = next_match_id]
               /\ match_row' = [match_row EXCEPT ![next_match_id] =
                                    InsertedFields(markets[pr[1]], markets[pr[2]])]
               /\ next_match_id' = next_match_id + 1
               /\ UNCHANGED price_history
    /\ UNCHANGED <<markets, volume, market_embeddings>>
    /\ UNCHANGED <<sync_pc, sync_desired, sync_new, sync_removed, syncs>>
    /\ UNCHANGED <<subscribed, _subscribed_ids, wire>>
    /\ UNCHANGED syncFrame

\* ------------------------------------------------------------------------
\* routers/ws.py: the frontend connections, their subscriptions to match
\* ids, and broadcast(), the callback that the price handlers await.  Both
\* dicts are functions whose DOMAIN is the key set.
\* ------------------------------------------------------------------------
MaxFrontOps == 5     \* connect / subscribe / unsubscribe / disconnect steps explored
MaxBroadcasts == 2   \* broadcast calls explored

FrontClients == {"w1", "w2"}

NoBroadcast == [match_id |-> 0, used |-> 0, sent |-> <<>>, dead |-> {}, changed |-> FALSE,
                detached |-> FALSE, steady |-> {}]

FrontStartup ==
    /\ _connections = <<>>
    /\ _match_subscribers = <<>>
    /\ bcast = [c \in WsClients |-> NoBroadcast]
    /\ front_ops = 0
    /\ broadcasts = 0

\* dict without key k
Without(f, k) == [x \in DOMAIN f \ {k} |-> f[x]]

\* dict with f[k] = v
With(f, k, v) == [x \in DOMAIN f \cup {k} |-> IF x = k THEN v ELSE f[x]]

\* subs.discard(ws) for every match id of mids, deleting a key whose set
\* becomes empty
RECURSIVE Discarded(_, _, _)
Discarded(subs, ws, mids) ==
    IF mids = {} THEN subs
    ELSE LET mid == CHOOSE m \in mids : TRUE
             rest == Discarded(subs, ws, mids \ {mid})
         IN  IF mid \notin DOMAIN rest THEN rest
             ELSE IF rest[mid] \ {ws} = {} THEN Without(rest, mid)
                  ELSE With(rest, mid, rest[mid] \ {ws})

\* a subscribe that records the match ids in the client's own set only
Added_OwnSetOnly(subs, ws, mids) == subs

\* setdefault(mid, set()).add(ws) for every match id of mids
Added(subs, ws, mids) ==
    [m \in DOMAIN subs \cup mids |->
        IF m \in mids THEN (IF m \in DOMAIN subs THEN subs[m] ELSE {}) \cup {ws} ELSE subs[m]]

\* what a change of the subscriber sets does to the broadcasts that are
\* iterating over one of them: the set object of a deleted key is left to
\* its iterator; steady keeps the clients that have been subscribed to the
\* match ever since the broadcast was called
Observed(b, newsubs) ==
    IF b.match_id = 0 \/ b.detached THEN b
    ELSE IF b.match_id \notin DOMAIN newsubs
         THEN [b EXCEPT !.detached = TRUE, !.changed = TRUE, !.steady = {}]
         ELSE IF newsubs[b.match_id] # _match_subscribers[b.match_id]
              THEN [b EXCEPT !.changed = TRUE, !.steady = @ \cap newsubs[b.match_id]]
              ELSE b

frontFrame == <<pollerVars, matchVars, clientVars, syncVars, laterVars>>

\* websocket_endpoint: manager.connect(ws)
FrontConnect(ws) ==
    /\ front_ops < MaxFrontOps
    /\ ws \notin DOMAIN _connections
    /\ _connections' = With(_connections, ws, {})
    /\ front_ops' = front_ops + 1
    /\ UNCHANGED <<_match_subscribers, bcast, broadcasts>>
    /\ UNCHANGED frontFrame

\* the state after manager.disconnect(ws)
DisconnectedSubs(ws) ==
    IF ws \in DOMAIN _connections
    THEN Discarded(_match_subscribers, ws, _connections[ws])
    ELSE _match_subscribers

\* websocket_endpoint, finally: manager.disconnect(ws)
FrontDisconnect(ws) ==
    /\ front_ops < MaxFrontOps
    /\ ws \in DOMAIN _connections
    /\ _connections' = Without(_connections, ws)
    /\ _match_subscribers' = DisconnectedSubs(ws)
    /\ bcast' = [c \in WsClients |-> Observed(bcast[c], DisconnectedSubs(ws))]
    /\ front_ops' = front_ops + 1
    /\ UNCHANGED broadcasts
    /\ UNCHANGED frontFrame

\* manager.subscribe(ws, match_ids)
FrontSubscribe(ws, mids) ==
    /\ front_ops < MaxFrontOps
    /\ front_ops' = front_ops + 1
    /\ IF ws \notin DOMAIN _connections
       THEN UNCHANGED <<_connections, _match_subscribers, bcast>>
       ELSE /\ _connections' = With(_connections, ws, _connections[ws] \cup mids)
            /\ _match_subscribers' = Added(_match_subscribers, ws, mids)
            /\ bcast' = [c \in WsClients |->
                            Observed(bcast[c], Added(_match_subscribers, ws, mids))]
    /\ UNCHANGED broadcasts
    /\ UNCHANGED frontFrame

\* manager.unsubscribe(ws, match_ids)
FrontUnsubscribe(ws, mids) ==
    /\ front_ops < MaxFrontOps
    /\ front_ops' = front_ops + 1
    /\ IF ws \notin DOMAIN _connections
       THEN UNCHANGED <<_connections, _match_subscribers, bcast>>
       ELSE /\ _connections' = With(_connections, ws, _connections[ws] \ mids)
            /\ _match_subscribers' = Discarded(_match_subscribers, ws, mids)
            /\ bcast' = [c \in WsClients |->
                            Observed(bcast[c], Discarded(_match_subscribers, ws, mids))]
    /\ UNCHANGED broadcasts
    /\ UNCHANGED frontFrame

\* the members "for ws in subs" can yield next: members of the set object
\* as it is now
Iterable_Snapshot(b) == FrontClients
Iterable(b) ==
    IF b.detached THEN {} ELSE _match_subscribers[b.match_id]

\* broadcast(match_id, data), called by the price handler of client c:
\* returns at once without subscribers, else starts to iterate
BroadcastCall(c, mid) ==
    /\ bcast[c].match_id = 0
    /\ broadcasts < MaxBroadcasts
    /\ broadcasts' = broadcasts + 1
    /\ mid \in DOMAIN _match_subscribers
    /\ bcast' = [bcast EXCEPT ![c] =
                    [NoBroadcast EXCEPT !.match_id = mid,
                                        !.used = Cardinality(_match_subscribers[mid]),
                                        !.steady = _match_subscribers[mid]]]
    /\ UNCHANGED <<_connections, _match_subscribers, front_ops>>
    /\ UNCHANGED frontFrame

\* subs is None or empty: return
BroadcastNoSubscribers(c, mid) ==
    /\ bcast[c].match_id = 0
    /\ broadcasts < MaxBroadcasts
    /\ broadcasts' = broadcasts + 1
    /\ mid \notin DOMAIN _match_subscribers
    /\ UNCHANGED <<_connections, _match_subscribers, bcast, front_ops>>
    /\ UNCHANGED frontFrame

\* the set iterator's size check passes (the set object has as many members
\* as it had when the iteration began)
SizeUnchanged(b) ==
    ~b.detached /\ Cardinality(_match_subscribers[b.match_id]) = b.used

\* the next step of "for ws in subs": the pending send returns or raises
\* (the first step has none), then the iterator yields a member and
\* send_text to it begins.  After a change that kept the size the iterator
\* can yield a member again or pass one over; it passes every slot of the
\* table once, which the model renders as one yield more than there are
\* sockets.
BroadcastSend(c) ==
    /\ bcast[c].match_id # 0
    /\ SizeUnchanged(bcast[c])
    /\ Len(bcast[c].sent) <= Cardinality(FrontClients)
    /\ \E ws \in Iterable(bcast[c]), failed \in BOOLEAN :
          /\ bcast[c].changed \/ ws \notin {bcast[c].sent[i] : i \in 1..Len(bcast[c].sent)}
          /\ failed => bcast[c].sent # <<>>
          /\ bcast' = [bcast EXCEPT ![c].sent = Append(@, ws),
                                    ![c].dead = IF failed
                                                THEN @ \cup {bcast[c].sent[Len(bcast[c].sent)]}
                                                ELSE @]
    /\ UNCHANGED <<_connections, _match_subscribers, front_ops, broadcasts>>
    /\ UNCHANGED frontFrame

\* manager.disconnect(ws) for every ws of dead
RECURSIVE DeadDropped(_, _, _)
DeadDropped(conns, subs, dead) ==
    IF dead = {} THEN [conns |-> conns, subs |-> subs]
    ELSE LET ws == CHOOSE w \in dead : TRUE
         IN  IF ws \in DOMAIN conns
             THEN DeadDropped(Without(conns, ws), Discarded(subs, ws, conns[ws]), dead \ {ws})
             ELSE DeadDropped(conns, subs, dead \ {ws})

\* the iteration ends after the last send returned or raised, and the dead
\* connections are dropped
BroadcastEnd(c) ==
    /\ bcast[c].match_id # 0
    /\ bcast[c].sent # <<>>
    /\ SizeUnchanged(bcast[c])
    /\ bcast[c].changed
          \/ Iterable(bcast[c]) \subseteq {bcast[c].sent[i] : i \in 1..Len(bcast[c].sent)}
    /\ \E failed \in BOOLEAN :
          LET dead == IF failed THEN bcast[c].dead \cup {bcast[c].sent[Len(bcast[c].sent)]}
                      ELSE bcast[c].dead
              after == DeadDropped(_connections, _match_subscribers, dead)
          IN  /\ _connections' = after.conns
              /\ _match_subscribers' = after.subs
              /\ bcast' = [d \in WsClients |->
                              IF d = c THEN NoBroadcast ELSE Observed(bcast[d], after.subs)]
    /\ UNCHANGED <<front_ops, broadcasts>>
    /\ UNCHANGED frontFrame

\* the iterator finds the size of the set changed: RuntimeError leaves
\* broadcast(), and the caller logs it
BroadcastRaises(c) ==
    /\ bcast[c].match_id # 0
    /\ bcast[c].sent # <<>>
    /\ ~SizeUnchanged(bcast[c])
    /\ bcast' = [bcast EXCEPT ![c] = NoBroadcast]
    /\ UNCHANGED <<_connections, _match_subscribers, front_ops, broadcasts>>
    /\ UNCHANGED frontFrame

\* ------------------------------------------------------------------------
\* poller.stop(), the two loops' reaction to it, and the discovery loop's
\* handling of a failed cycle.  The interval sleep of a loop is
\* wait_for(shield(_stop_event.wait()), timeout): the loop is at "loop" /
\* "rf_sleep" while it sleeps (and before its first iteration: the refresh
\* loop begins with the same wait, which returns from the loop when stop
\* is requested).  Nothing is awaited between the timeout of the sleep, the
\* test of the while condition and the first await of the next iteration.
\* ------------------------------------------------------------------------
LoopTasks == {Disc, Refresh}

\* where a loop sleeps
SleepOf(t) == IF t = Disc THEN "loop" ELSE "rf_sleep"

\* Task.done()
Done(t) == pc[t] \in {"exited", "cancelled"}

\* _stop_event.is_set()
StopRequested_Ignored == FALSE
StopRequested == _stop_event

StopStartup ==
    /\ _stop_event = FALSE
    /\ stop_call = "none"
    /\ failures = 0

\* a waiter of asyncio.Lock.acquire() is cancelled: it leaves the queue
\* and, when the lock is free (it had been woken), wakes the next waiter
Abandoned(l, p) ==
    LET rest == SelectSeq(l.waiters, LAMBDA w : w.proc # p)
    IN  [locked |-> l.locked,
         waiters |-> IF ~l.locked /\ rest # <<>>
                     THEN <<[rest[1] EXCEPT !.woken = TRUE]>> \o Tail(rest)
                     ELSE rest]

\* while not _stop_event.is_set(): await _run_cycle()
DiscoveryIteration ==
    /\ ~StopRequested
    /\ DiscoveryLoop

\* except Exception: logger.error(...); the loop goes on to its sleep
DiscoveryCycleFails ==
    /\ pc[Disc] \in CycleBody
    /\ CycleRaise(Disc)
    /\ failures' = failures + 1
    /\ UNCHANGED <<_db_write_lock, dbVars, wsVars, rfVars, counters>>
    /\ UNCHANGED <<matchVars, clientVars, syncVars, frontVars, pureVars, fetchVars, _stop_event, stop_call>>

\* _price_refresh_loop: one iteration of the while loop, up to its first
\* await (get_db / refresh_prices) or, with both clients connected, to its
\* sleep
RefreshLoopIteration ==
    /\ pc[Refresh] = "rf_sleep"
    /\ ~StopRequested
    /\ refreshes < MaxRefreshes
    /\ refreshes' = refreshes + 1
    /\ IF both_connected
       THEN /\ rf_outcome' = "skipped"
            /\ UNCHANGED pc
       ELSE /\ rf_outcome' = "rest"
            /\ pc' = [pc EXCEPT ![Refresh] = "rf_pass"]
    /\ UNCHANGED <<_cycle_lock, _db_write_lock, dbVars, wsVars, rf_matches, rest_rows, cycleLocals,
                   trigVars, cycles, events>>
    /\ UNCHANGED <<matchVars, clientVars, extVars>>

\* refresh_prices returns, or raises an Exception that the loop logs: the
\* loop goes on to its sleep
RefreshPassEnds ==
    /\ pc[Refresh] = "rf_pass"
    /\ pc' = [pc EXCEPT ![Refresh] = "rf_sleep"]
    /\ UNCHANGED <<_cycle_lock, _db_write_lock, dbVars, wsVars, rfVars, cycleLocals,
                   trigVars, counters>>
    /\ UNCHANGED <<matchVars, clientVars, extVars>>

\* the sleep of a loop ends because _stop_event is set (break / return),
\* or it times out and the while condition is false
LoopExits(t) ==
    /\ pc[t] = SleepOf(t)
    /\ StopRequested
    /\ pc' = [pc EXCEPT ![t] = "exited"]
    /\ UNCHANGED <<_cycle_lock, _db_write_lock, dbVars, wsVars, rfVars, cycleLocals,
                   trigVars, counters>>
    /\ UNCHANGED <<matchVars, clientVars, extVars>>

\* for task in (_discovery_task, _refresh_task): if task and not
\* task.done(): the first task from t on that stop() has to wait for
AwaitFrom(t, finished) ==
    IF t = Disc /\ Disc \notin finished THEN "discovery"
    ELSE IF Refresh \notin finished THEN "refresh"
    ELSE "returned"

Awaited == IF stop_call = "discovery" THEN Disc ELSE Refresh

\* stop(): _stop_event.set(), up to the first await asyncio.wait_for(task)
StopCalled ==
    /\ stop_call = "none"
    /\ _stop_event' = TRUE
    /\ stop_call' = AwaitFrom(Disc, {t \in LoopTasks : Done(t)})
    /\ UNCHANGED <<pollerVars, matchVars, clientVars, syncVars, frontVars, pureVars, fetchVars, failures>>

\* the awaited task has finished: wait_for returns and stop() goes on to
\* the next task
TaskJoined ==
    /\ stop_call \in {"discovery", "refresh"}
    /\ Done(Awaited)
    /\ stop_call' = AwaitFrom(Refresh, {t \in LoopTasks : Done(t)})
    /\ UNCHANGED <<pollerVars, matchVars, clientVars, syncVars, frontVars, pureVars, fetchVars,
                   _stop_event, failures>>

\* the 10 seconds of wait_for elapse: wait_for cancels the task and waits
\* for it to end, then raises TimeoutError; stop() logs, calls
\* task.cancel() again and goes on.  CancelledError is not an Exception:
\* it leaves the loop through async with _cycle_lock (which releases the
\* lock) or through Lock.acquire() and ends the task.
GraceElapsed ==
    /\ stop_call \in {"discovery", "refresh"}
    /\ ~Done(Awaited)
    /\ pc' = [pc EXCEPT ![Awaited] = "cancelled"]
    /\ _cycle_lock' = IF Awaited = Disc /\ pc[Disc] \in CycleBody THEN Released(_cycle_lock)
                      ELSE IF Awaited = Disc /\ pc[Disc] = "lock_wait"
                           THEN Abandoned(_cycle_lock, Disc)
                      ELSE _cycle_lock
    /\ listing' = [listing EXCEPT ![Disc] = IF Awaited = Disc THEN NoListing ELSE @]
    /\ quoted' = [quoted EXCEPT ![Disc] = IF Awaited = Disc THEN NoQuote ELSE @]
    /\ confirmed' = [confirmed EXCEPT ![Disc] = IF Awaited = Disc THEN {} ELSE @]
    /\ stop_call' = AwaitFrom(Refresh, {t \in LoopTasks : Done(t)} \cup {Awaited})
    /\ UNCHANGED <<_db_write_lock, dbVars, wsVars, rfVars, trigVars, counters>>
    /\ UNCHANGED <<matchVars, clientVars, syncVars, frontVars, pureVars, fetchVars, _stop_event, failures>>

\* ------------------------------------------------------------------------
\* sports_matcher: parse_poly_slug, parse_kalshi_event_ticker,
\* check_sports_orientation, match_sports_deterministic.  A team code is
\* the sequence of its characters, lower case (both parsers lower the
\* case); a slug or ticker is the record of the parts its regular
\* expression captures, the empty string being the record with an empty
\* league / series.
\* ------------------------------------------------------------------------
Okc == <<"o", "k", "c">>
Det == <<"d", "e", "t">>
TeamCodes == {Okc, Det}

Digits == {"0", "1", "2", "3", "4", "5", "6", "7", "8", "9"}

NoDate == [y |-> 0, m |-> 0, d |-> 0]
NoSlug == [league |-> "", team1 |-> <<>>, team2 |-> <<>>, date |-> NoDate]
NoTicker == [series |-> "", yy |-> 0, mon |-> "", dd |-> 0, teams |-> <<>>]
NotParsed == [ok |-> FALSE, league |-> "", team1 |-> <<>>, team2 |-> <<>>, teams |-> <<>>,
              date |-> NoDate]

\* POLY_LEAGUE_MAP / KALSHI_LEAGUE_MAP, for the leagues explored ("" when
\* the prefix is not in the map)
POLY_LEAGUE_MAP(prefix) ==
    IF prefix \in {"nba", "nhl"} THEN prefix ELSE ""
KALSHI_LEAGUE_MAP(series) ==
    IF series = "KXNBAGAME" THEN "nba" ELSE IF series = "KXNHLGAME" THEN "nhl" ELSE ""

\* TEAM_ALIASES.get(code, code)
TEAM_ALIASES(code) == IF code = <<"u", "t", "a", "h">> THEN <<"u", "t", "a">> ELSE code

_MONTH_MAP(mon) == IF mon = "JAN" THEN 1 ELSE IF mon = "FEB" THEN 2 ELSE IF mon = "MAR" THEN 3 ELSE 0

\* _strip_ucl_suffix: trailing digits are dropped when two characters remain
RECURSIVE StripDigits(_)
StripDigits(code) ==
    IF code # <<>> /\ code[Len(code)] \in Digits
    THEN StripDigits(SubSeq(code, 1, Len(code) - 1)) ELSE code

_strip_ucl_suffix(code) == IF Len(StripDigits(code)) >= 2 THEN StripDigits(code) ELSE code

\* parse_poly_slug: (league, team1, team2, date) or None
parse_poly_slug(slug) ==
    IF slug.league = "" \/ Len(slug.team1) \notin 2..7 \/ Len(slug.team2) \notin 2..7
    THEN NotParsed
    ELSE IF POLY_LEAGUE_MAP(slug.league) = "" THEN NotParsed
    ELSE [NotParsed EXCEPT !.ok = TRUE, !.league = POLY_LEAGUE_MAP(slug.league),
                           !.team1 = _strip_ucl_suffix(slug.team1),
                           !.team2 = _strip_ucl_suffix(slug.team2),
                           !.date = slug.date]

\* parse_kalshi_event_ticker: (league, teams_str, date) or None
parse_kalshi_event_ticker(ticker) ==
    IF ticker.series = "" \/ KALSHI_LEAGUE_MAP(ticker.series) = "" THEN NotParsed
    ELSE IF Len(ticker.teams) \notin 2..12 \/ (\E i \in 1..Len(ticker.teams) : ticker.teams[i] \in Digits)
         THEN NotParsed
    ELSE IF _MONTH_MAP(ticker.mon) = 0 THEN NotParsed
    ELSE [NotParsed EXCEPT !.ok = TRUE, !.league = KALSHI_LEAGUE_MAP(ticker.series),
                           !.teams = ticker.teams,
                           !.date = [y |-> 2000 + ticker.yy, m |-> _MONTH_MAP(ticker.mon),
                                     d |-> ticker.dd]]

\* str.startswith
StartsWith(s, p) == Len(p) <= Len(s) /\ SubSeq(s, 1, Len(p)) = p

\* _teams_match: bidirectional prefix match of a YES suffix and a team code
_teams_match(suffix, poly_team) ==
    LET p == TEAM_ALIASES(poly_team)
    IN  /\ suffix # <<>>
        /\ poly_team # <<>>
        /\ Min(Len(suffix), Len(p)) >= 2
        /\ (StartsWith(suffix, p) \/ StartsWith(p, suffix))

\* check_sports_orientation.  A Kalshi market id is [scheme, event, yes]:
\* "kalshi:" followed by the event ticker and, when yes is not empty, "-"
\* and the YES team; an id without YES team has fewer than two hyphens
check_sports_orientation_Team2First(kalshi_market_id, poly_team1, poly_team2) ==
    IF kalshi_market_id.scheme # "kalshi:" THEN "unknown"
    ELSE IF kalshi_market_id.yes = <<>> THEN "unknown"
    ELSE IF ~parse_kalshi_event_ticker(kalshi_market_id.event).ok THEN "unknown"
    ELSE IF _teams_match(kalshi_market_id.yes, poly_team2) THEN "inverted"
    ELSE IF _teams_match(kalshi_market_id.yes, poly_team1) THEN "aligned"
    ELSE "unknown"

check_sports_orientation(kalshi_market_id, poly_team1, poly_team2) ==
    IF kalshi_market_id.scheme # "kalshi:" THEN "unknown"
    ELSE IF kalshi_market_id.yes = <<>> THEN "unknown"
    ELSE IF ~parse_kalshi_event_ticker(kalshi_market_id.event).ok THEN "unknown"
    ELSE IF _teams_match(kalshi_market_id.yes, poly_team1) THEN "aligned"
    ELSE IF _teams_match(kalshi_market_id.yes, poly_team2) THEN "inverted"
    ELSE "unknown"

\* kalshi_by_key.get((league, date, teams)): the ids of the listed markets
\* of that game, in list order (<<>> for a missing key)
RECURSIVE kalshi_by_key(_, _, _, _)
kalshi_by_key(kalshi, league, date, teams) ==
    IF kalshi = <<>> THEN <<>>
    ELSE LET parsed == parse_kalshi_event_ticker(Head(kalshi).event_ticker)
             rest == kalshi_by_key(Tail(kalshi), league, date, teams)
         IN IF parsed.ok /\ parsed.league = league /\ parsed.date = date /\ parsed.teams = teams
            THEN <<Head(kalshi).id>> \o rest ELSE rest

\* game_date + timedelta(days=delta), for days inside a month
AdjDate_Two(date, delta) == [date EXCEPT !.d = @ + 2 * delta]

AdjDate(date, delta) == [date EXCEPT !.d = @ + delta]

\* the first non-empty lookup among the keys tried, in the order tried
RECURSIVE FirstIds(_, _, _)
FirstIds(kalshi, league, keys) ==
    IF keys = <<>> THEN <<>>
    ELSE LET ids == kalshi_by_key(kalshi, league, Head(keys)[1], Head(keys)[2])
         IN IF ids # <<>> THEN ids ELSE FirstIds(kalshi, league, Tail(keys))

\* the keys tried, in order
KeysTried_OneOrder(date, t1, t2) ==
    << <<date, t1 \o t2>>, <<AdjDate(date, -1), t1 \o t2>>, <<AdjDate(date, 1), t1 \o t2>> >>

\* both team orders on the date of the slug, then on the day before, then
\* on the day after
KeysTried(date, t1, t2) ==
    << <<date, t1 \o t2>>, <<date, t2 \o t1>>,
       <<AdjDate(date, -1), t1 \o t2>>, <<AdjDate(date, -1), t2 \o t1>>,
       <<AdjDate(date, 1), t1 \o t2>>, <<AdjDate(date, 1), t2 \o t1>> >>

NoId == [scheme |-> "", event |-> NoTicker, yes |-> <<>>]

\* the selection loop: the first aligned market, else the first unknown
\* one, else none
BestId_First(ids, team1, team2, unknown_candidate) ==
    IF ids = <<>> THEN unknown_candidate ELSE Head(ids)

RECURSIVE BestId(_, _, _, _)
BestId(ids, team1, team2, unknown_candidate) ==
    IF ids = <<>> THEN unknown_candidate
    ELSE LET orientation == check_sports_orientation(Head(ids), team1, team2)
         IN IF orientation = "aligned" THEN Head(ids)
            ELSE IF orientation = "unknown" /\ unknown_candidate = NoId
                 THEN BestId(Tail(ids), team1, team2, Head(ids))
            ELSE BestId(Tail(ids), team1, team2, unknown_candidate)

\* the Kalshi markets of the game of one Polymarket market
GameIds(m, kalshi) ==
    LET parsed == parse_poly_slug(m.event_slug)
    IN  FirstIds(kalshi, parsed.league,
                 KeysTried(parsed.date, TEAM_ALIASES(parsed.team1), TEAM_ALIASES(parsed.team2)))

\* the Polymarket market is a moneyline market with a parseable slug
Eligible(m) ==
    /\ m.sports_market_type \in {"", "moneyline"}
    /\ parse_poly_slug(m.event_slug).ok

\* match_sports_deterministic(poly_markets, kalshi_markets); confidence in
\* hundredths
RECURSIVE match_sports_deterministic(_, _)
match_sports_deterministic(poly, kalshi) ==
    IF poly = <<>> THEN <<>>
    ELSE LET m == Head(poly)
             parsed == parse_poly_slug(m.event_slug)
             rest == match_sports_deterministic(Tail(poly), kalshi)
         IN IF ~Eligible(m) THEN rest
            ELSE LET best_id == BestId(GameIds(m, kalshi), parsed.team1, parsed.team2, NoId)
                 IN IF best_id = NoId THEN rest
                    ELSE <<[poly_id |-> m.id, kalshi_id |-> best_id, confidence |-> 100]>> \o rest

\* the inputs explored: one Polymarket market and up to MaxKalshi listed
\* Kalshi markets of the game Oklahoma City - Detroit, listed on the date of
\* the slug or up to two days from it, each with or without a YES team in
\* its id
GameDay == 25
KalshiDays == {GameDay - 2, GameDay - 1, GameDay, GameDay + 1, GameDay + 2}

PolySlug(prefix, t1, t2) ==
    [league |-> prefix, team1 |-> t1, team2 |-> t2, date |-> [y |-> 2026, m |-> 2, d |-> GameDay]]

KalshiTicker(dd, teams) ==
    [series |-> "KXNBAGAME", yy |-> 26, mon |-> "FEB", dd |-> dd, teams |-> teams]

PolyInputs ==
    {[id |-> "P1", event_slug |-> slug, sports_market_type |-> smt] :
        slug \in {NoSlug, PolySlug("nba", Okc, Det), PolySlug("nba", Det, Okc),
                  PolySlug("btc", Okc, Det)},
        smt \in {"", "moneyline", "spreads"}}

KalshiInputs ==
    {[id |-> [scheme |-> "kalshi:", event |-> KalshiTicker(dd, Okc \o Det), yes |-> yes],
      event_ticker |-> KalshiTicker(dd, Okc \o Det)] :
        dd \in KalshiDays, yes \in {<<>>} \cup TeamCodes}

RECURSIVE DistinctLists(_, _)
DistinctLists(S, n) ==
    IF n = 0 THEN {<<>>}
    ELSE LET shorter == DistinctLists(S, n - 1)
         IN shorter \cup {Append(q, x) : q \in {r \in shorter : Len(r) = n - 1},
                                         x \in S}

KalshiLists ==
    {q \in DistinctLists(KalshiInputs, MaxKalshi) :
        \A i, j \in 1..Len(q) : i # j => q[i] # q[j]}

\* the slug with its two team codes swapped
SwapSlug(m) ==
    [m EXCEPT !.event_slug = [@ EXCEPT !.team1 = m.event_slug.team2,
                                       !.team2 = m.event_slug.team1]]

\* the concatenated team codes of a ticker, swapped
SwappedTeams(teams) ==
    IF \E ab \in TeamCodes \X TeamCodes : ab[1] \o ab[2] = teams
    THEN LET ab == CHOOSE ab \in TeamCodes \X TeamCodes : ab[1] \o ab[2] = teams
         IN ab[2] \o ab[1]
    ELSE teams

SwapTicker(t) == [t EXCEPT !.teams = SwappedTeams(t.teams)]

SwapKalshi(k) ==
    [id |-> [k.id EXCEPT !.event = SwapTicker(k.id.event)],
     event_ticker |-> SwapTicker(k.event_ticker)]

RECURSIVE Mapped(_, _)
Mapped(Op(_), q) == IF q = <<>> THEN <<>> ELSE <<Op(Head(q))>> \o Mapped(Op, Tail(q))

\* the listings a result pairs, whatever the team order their tickers are
\* written in
UnswapMatch(r) == [r EXCEPT !.kalshi_id = [@ EXCEPT !.event = SwapTicker(r.kalshi_id.event)]]

\* poller._run_cycle, Step 3: the markets are read back from the markets
\* table with SELECT id, question, category, yes_price, no_price, volume,
\* url, end_date; the table has no column for the slug, the event ticker or
\* the market type, and the normalisers of the ingest do not set them, so
\* the dicts handed to match_markets have none of these keys
CycleDict(m) ==
    [id |-> m.id, event_slug |-> NoSlug, event_ticker |-> NoTicker, sports_market_type |-> ""]

CycleDictKalshi(k) == [id |-> k.id, event_ticker |-> NoTicker]

NoMatched == [ran |-> {}, direct |-> <<>>, poly_swapped |-> <<>>, kalshi_swapped |-> <<>>,
              cycle |-> <<>>, orientation |-> ""]

SportsStartup ==
    /\ poly_markets = <<>>
    /\ kalshi_markets = <<>>
    /\ matched = NoMatched

sportsFrame == <<pollerVars, matchVars, clientVars, syncVars, frontVars, stopVars, fetchVars, confirmVars, calcVars,
                 poly_markets, kalshi_markets>>

\* match_sports_deterministic is called with the markets as listed
DetCall ==
    /\ "direct" \notin matched.ran
    /\ matched' = [matched EXCEPT !.ran = @ \cup {"direct"},
                      !.direct = match_sports_deterministic(poly_markets, kalshi_markets)]
    /\ UNCHANGED sportsFrame

\* ... with the team codes of the slug swapped
DetCallPolySwapped ==
    /\ "poly_swapped" \notin matched.ran
    /\ matched' = [matched EXCEPT !.ran = @ \cup {"poly_swapped"},
                      !.poly_swapped = match_sports_deterministic(Mapped(SwapSlug, poly_markets),
                                                                  kalshi_markets)]
    /\ UNCHANGED sportsFrame

\* ... with the team codes of every ticker swapped
DetCallKalshiSwapped ==
    /\ "kalshi_swapped" \notin matched.ran
    /\ matched' = [matched EXCEPT !.ran = @ \cup {"kalshi_swapped"},
                      !.kalshi_swapped =
                          Mapped(UnswapMatch,
                                 match_sports_deterministic(poly_markets,
                                                            Mapped(SwapKalshi, kalshi_markets)))]
    /\ UNCHANGED sportsFrame

\* check_sports_orientation is called with the id of the Kalshi market and
\* the two team codes of the slug
OrientationCall ==
    /\ "orientation" \notin matched.ran
    /\ matched' = [matched EXCEPT !.ran = @ \cup {"orientation"},
                      !.orientation =
                          check_sports_orientation(kalshi_markets[1].id,
                                                   poly_markets[1].event_slug.team1,
                                                   poly_markets[1].event_slug.team2)]
    /\ UNCHANGED sportsFrame

\* the inputs explored for check_sports_orientation: team codes of which
\* one is a prefix of others or has an alias, ids with and without the
\* "kalshi:" prefix, of a game and of a market that is no game, with and
\* without a YES team
La == <<"l", "a">>
Lal == <<"l", "a", "l">>
Lac == <<"l", "a", "c">>
Utah == <<"u", "t", "a", "h">>
Uta == <<"u", "t", "a">>
OrientTeams == {<<Okc, Det>>, <<Det, Okc>>, <<Lal, Lac>>, <<Lal, La>>, <<Utah, Det>>, <<Det, Utah>>}
OrientSuffixes == {<<>>, Okc, Det, La, Lal, Lac, Uta, <<"d">>}
OrientPolyInputs ==
    {[id |-> "P1", event_slug |-> PolySlug("nba", tt[1], tt[2]), sports_market_type |-> ""] :
        tt \in OrientTeams}
OrientKalshiInputs ==
    {[id |-> [scheme |-> scheme, event |-> [KalshiTicker(GameDay, Okc \o Det) EXCEPT !.series = series],
              yes |-> yes],
      event_ticker |-> [KalshiTicker(GameDay, Okc \o Det) EXCEPT !.series = series]] :
        scheme \in {"kalshi:", ""}, series \in {"KXNBAGAME", "KXBTCD"}, yes \in OrientSuffixes}

\* a discovery cycle has ingested the markets: Pass 0 of match_markets
\* calls match_sports_deterministic with the dicts of Step 3
CycleDetCall ==
    /\ "cycle" \notin matched.ran
    /\ matched' = [matched EXCEPT !.ran = @ \cup {"cycle"},
                      !.cycle = match_sports_deterministic(Mapped(CycleDict, poly_markets),
                                                           Mapped(CycleDictKalshi, kalshi_markets))]
    /\ UNCHANGED sportsFrame

\* ------------------------------------------------------------------------
\* matcher.match_markets, pass 2 in detail: one call with one Polymarket
\* market, one Kalshi market and the pair of them as the only embedding
\* candidate.  Prices are in cents, confidences in hundredths, end dates in
\* seconds.
\* ------------------------------------------------------------------------
_DATE_TOLERANCE_SECONDS == 259200
_CONFIDENCE_THRESHOLD == 70

\* an end_date value: missing, a text that is not an ISO date, or a date
NoEnd == [kind |-> "none", t |-> 0]
EndDate(t) == [kind |-> "iso", t |-> t]

\* _parse_date: a datetime, or None
_parse_date(value) ==
    IF value.kind = "iso" THEN [ok |-> TRUE, t |-> value.t] ELSE [ok |-> FALSE, t |-> 0]

\* _dates_compatible
_dates_compatible(poly_end, kalshi_end) ==
    LET poly_dt == _parse_date(poly_end)
        kalshi_dt == _parse_date(kalshi_end)
    IN  IF ~poly_dt.ok \/ ~kalshi_dt.ok THEN TRUE
        ELSE Abs(poly_dt.t - kalshi_dt.t) <= _DATE_TOLERANCE_SECONDS

\* A question text, as far as the threshold patterns read it: the one
\* dollar amount it mentions ("none": it mentions no number) and the
\* characters that follow the amount.  A value is num * 1000^scale, kept as
\* <<num, scale>>: the numbers explored are below 1000, so two pairs are
\* equal exactly when the values are.
NoMention == [kind |-> "none", num |-> 0, after |-> <<>>]
Dollar(num, after) == [kind |-> "dollar", num |-> num, after |-> after]

\* {"k": 1e3, "m": 1e6, "b": 1e9}.get(suffix.lower(), 1)
SuffixScale(ch) ==
    IF ch \in {"K", "k"} THEN 1 ELSE IF ch \in {"M", "m"} THEN 2
    ELSE IF ch \in {"B", "b"} THEN 3 ELSE 0

RECURSIVE SkipSpaces(_)
SkipSpaces(chars) ==
    IF chars # <<>> /\ Head(chars) = " " THEN SkipSpaces(Tail(chars)) ELSE chars

\* the second group of _DOLLAR_RE, \s*([KkMmBb])?: the first character after
\* the amount and any white space, when it is one of the six letters
SuffixGroup(after) ==
    IF SkipSpaces(after) # <<>> /\ SuffixScale(Head(SkipSpaces(after))) > 0
    THEN Head(SkipSpaces(after)) ELSE ""

\* _extract_numeric_thresholds
_extract_numeric_thresholds(text) ==
    IF text.kind = "dollar" THEN {<<text.num, SuffixScale(SuffixGroup(text.after))>>} ELSE {}

\* _thresholds_compatible
_thresholds_compatible(poly_q, kalshi_q) ==
    LET poly_vals == _extract_numeric_thresholds(poly_q)
        kalshi_vals == _extract_numeric_thresholds(kalshi_q)
    IN  ~(poly_vals # {} /\ kalshi_vals # {} /\ poly_vals \cap kalshi_vals = {})

\* the pair of this call and its key
CandPair == <<"p1", "k1">>
CandKey == KeyOf(CandPair)

\* what _call_groq comes to, and the verdict of a reply that is a JSON
\* object: result.get("confirmed"), bool(result.get("inverted", False))
Replies ==
    {[kind |-> k, confirmed |-> FALSE, inverted |-> FALSE] : k \in NoAnswer}
        \cup {[kind |-> "json", confirmed |-> c, inverted |-> i] : c, i \in BOOLEAN}

NoReply == [kind |-> "none", confirmed |-> FALSE, inverted |-> FALSE]

\* the match dict built for a pair: the prices are those of the two markets
MatchDict(in, confidence) ==
    [polymarket_id |-> CandPair[1], kalshi_id |-> CandPair[2], confidence |-> confidence,
     polymarket_yes |-> in.poly.yes_price, kalshi_yes |-> in.kalshi.yes_price]

\* _pass2_confirm after the reply: a match dict (<<d>>) or None (<<>>)
ConfirmResult_KeepInverted(in, reply) ==
    IF reply.kind = "json" /\ reply.confirmed THEN <<MatchDict(in, in.confidence)>> ELSE <<>>

ConfirmResult(in, reply) ==
    IF reply.kind = "json" /\ reply.confirmed /\ ~reply.inverted
    THEN <<MatchDict(in, in.confidence)>> ELSE <<>>

\* the secondary orientation check of a confirmed pair: "none" when the
\* slug of the Polymarket market does not parse
Orientation(in) ==
    LET parsed == parse_poly_slug(in.poly.event_slug)
    IN  IF ~parsed.ok THEN "none"
        ELSE check_sports_orientation(in.kalshi.id, parsed.team1, parsed.team2)

\* Pass 0 of the call: the deterministic match of the pair, when there is one
DetConfirmed(in) ==
    IF match_sports_deterministic(<<in.poly>>, <<in.kalshi>>) # <<>>
    THEN <<MatchDict(in, 100)>> ELSE <<>>

\* why pass 2 passes over the candidate before _pass2_confirm ("" when it
\* does not): the key is in cached_keys (Pass 0 put it there), it is in
\* _rejected_keys, or a prefilter fails
SkipReason(in) ==
    IF DetConfirmed(in) # <<>> THEN "cached"
    ELSE IF IsRejected(CandKey) THEN "rejected"
    ELSE IF ~_dates_compatible(in.poly.end_date, in.kalshi.end_date) THEN "date"
    ELSE IF ~_thresholds_compatible(in.poly.question, in.kalshi.question) THEN "threshold"
    ELSE ""

NoCallOut == [at |-> "start", skipped |-> "", sent |-> FALSE, reply |-> NoReply,
              returned |-> <<>>]

ConfirmStartup ==
    /\ mm_in = [poly |-> [id |-> "", end_date |-> NoEnd, question |-> NoMention,
                          yes_price |-> 0, event_slug |-> NoSlug, sports_market_type |-> ""],
                kalshi |-> [id |-> NoId, end_date |-> NoEnd, question |-> NoMention,
                            yes_price |-> 0, event_ticker |-> NoTicker],
                confidence |-> 0]
    /\ mm_out = NoCallOut

confirmFrame == <<pollerVars, matchLocals, groq_calls, response, deferred, match_calls,
                  clientVars, syncVars, frontVars, stopVars, fetchVars, sportsVars, calcVars, mm_in>>

\* match_markets up to the end of the loop of pass 2 when the candidate is
\* passed over: a prefilter that fails adds the key to _rejected_keys
CandidateSkipped ==
    /\ mm_out.at = "start"
    /\ SkipReason(mm_in) # ""
    /\ _rejected_keys' = IF SkipReason(mm_in) \in {"date", "threshold"}
                         THEN _rejected_keys \cup {CandKey} ELSE _rejected_keys
    /\ mm_out' = [mm_out EXCEPT !.at = "returned", !.skipped = SkipReason(mm_in),
                                !.returned = DetConfirmed(mm_in)]
    /\ UNCHANGED confirmFrame

\* _pass2_confirm returns None before _call_groq: the confidence of the
\* candidate is below _CONFIDENCE_THRESHOLD
CandidateBelowThreshold ==
    /\ mm_out.at = "start"
    /\ SkipReason(mm_in) = ""
    /\ mm_in.confidence < _CONFIDENCE_THRESHOLD
    /\ _rejected_keys' = _rejected_keys \cup {CandKey}
    /\ mm_out' = [mm_out EXCEPT !.at = "returned", !.returned = DetConfirmed(mm_in)]
    /\ UNCHANGED confirmFrame

\* match_markets up to await _call_groq(prompt, system) in _pass2_confirm
CandidateSent ==
    /\ mm_out.at = "start"
    /\ SkipReason(mm_in) = ""
    /\ mm_in.confidence >= _CONFIDENCE_THRESHOLD
    /\ mm_out' = [mm_out EXCEPT !.at = "asked", !.sent = TRUE]
    /\ UNCHANGED <<_rejected_keys, confirmFrame>>

\* the reply of the confirmation service, the rest of _pass2_confirm and of
\* the loop body, and return det_confirmed + confirmed
ReplyHandled ==
    /\ mm_out.at = "asked"
    /\ \E reply \in Replies :
         LET result == ConfirmResult(mm_in, reply)
             kept == result # <<>> /\ Orientation(mm_in) # "inverted"
         IN /\ _rejected_keys' =
                  IF reply.kind # "raises" /\ ~kept
                  THEN _rejected_keys \cup {CandKey} ELSE _rejected_keys
            /\ mm_out' = [mm_out EXCEPT !.at = "returned", !.reply = reply,
                             !.returned = DetConfirmed(mm_in) \o (IF kept THEN result ELSE <<>>)]
    /\ UNCHANGED confirmFrame

\* match_markets is called again, in the next discovery cycle, with the
\* same markets and the same candidate
MatchMarketsAgain ==
    /\ mm_out.at = "returned"
    /\ match_calls + 1 < MaxMatchCalls
    /\ match_calls' = match_calls + 1
    /\ mm_out' = NoCallOut
    /\ UNCHANGED <<pollerVars, _rejected_keys, matchLocals, groq_calls, response, deferred,
                   clientVars, syncVars, frontVars, stopVars, fetchVars, sportsVars, calcVars, mm_in>>

\* the inputs explored: end dates missing, not parseable, or a tolerance
\* (and a second more) apart; questions that mention no amount, $5, $7,
\* "$5B" and "$5 by ..."; a slug and a ticker of the game Oklahoma City -
\* Detroit or none; a Kalshi id with or without a YES team
PolyEndDates == {NoEnd, EndDate(0)}
KalshiEndDates ==
    {NoEnd, [kind |-> "text", t |-> 0], EndDate(_DATE_TOLERANCE_SECONDS),
     EndDate(_DATE_TOLERANCE_SECONDS + 1)}
PolyQuestions == {NoMention, Dollar(5, <<>>), Dollar(5, <<" ", "b", "y">>)}
KalshiQuestions == {NoMention, Dollar(5, <<>>), Dollar(7, <<>>), Dollar(5, <<"B">>)}

ConfirmInputs ==
    {[poly |-> [id |-> CandPair[1], end_date |-> pe, question |-> pq, yes_price |-> py,
                event_slug |-> slug, sports_market_type |-> "moneyline"],
      kalshi |-> [id |-> [scheme |-> "kalshi:", event |-> KalshiTicker(GameDay, Okc \o Det),
                          yes |-> yes],
                  end_date |-> ke, question |-> kq, yes_price |-> 80, event_ticker |-> et],
      confidence |-> c] :
        pe \in PolyEndDates, ke \in KalshiEndDates, pq \in PolyQuestions,
        kq \in KalshiQuestions, py \in {20, 80},
        slug \in {NoSlug, PolySlug("nba", Okc, Det)},
        yes \in {<<>>} \cup TeamCodes,
        et \in {NoTicker, KalshiTicker(GameDay, Okc \o Det)},
        c \in {60, 90}}

\* ------------------------------------------------------------------------
\* calculator.calculate_spread applied to one pair of YES prices, and the
\* upsert loop of _run_cycle, Step 3, applied to lists of confirmed matches
\* ------------------------------------------------------------------------
\* YES prices explored, in cents
CalcPrices == 0..100

NoCalc == [done |-> FALSE, raw_spread |-> 0, fee_adjusted_spread |-> 0, kalshi_fee |-> 0,
           direction |-> "", profitable |-> FALSE]

\* calculate_spread(poly_yes, kalshi_yes) is called
CalcCall ==
    /\ ~calc_out.done
    /\ LET result == calculate_spread(calc_in.poly_yes, calc_in.kalshi_yes)
       IN calc_out' = [done |-> TRUE, raw_spread |-> result.raw_spread,
                       fee_adjusted_spread |-> result.fee_adjusted_spread,
                       kalshi_fee |-> result.kalshi_fee, direction |-> result.direction,
                       profitable |-> result.profitable]
    /\ UNCHANGED <<pollerVars, matchVars, clientVars, syncVars, frontVars, stopVars, fetchVars, sportsVars,
                   confirmVars, calc_in, up_rows, up_call>>

\* a row of the matches table
MatchRow(id, m, now) ==
    [id |-> id, polymarket_id |-> m.polymarket_id, kalshi_id |-> m.kalshi_id,
     confidence |-> m.confidence,
     spread |-> calculate_spread(m.polymarket_yes, m.kalshi_yes).raw_spread,
     fee_adjusted_spread |-> calculate_spread(m.polymarket_yes, m.kalshi_yes).fee_adjusted_spread,
     polymarket_yes |-> m.polymarket_yes, kalshi_yes |-> m.kalshi_yes, last_updated |-> now]

\* the rows that conflict with the insert of m: UNIQUE(polymarket_id,
\* kalshi_id)
ConflictingRows_None(rows, m) == {}

ConflictingRows(rows, m) ==
    {i \in 1..Len(rows) : rows[i].polymarket_id = m.polymarket_id
                             /\ rows[i].kalshi_id = m.kalshi_id}

\* INSERT INTO matches (...) VALUES (...) ON CONFLICT(polymarket_id,
\* kalshi_id) DO UPDATE SET confidence = excluded.confidence,
\* last_updated = excluded.last_updated
UpsertRow(rows, next_id, m, now) ==
    IF ConflictingRows(rows, m) = {}
    THEN Append(rows, MatchRow(next_id, m, now))
    ELSE [i \in 1..Len(rows) |->
            IF i \in ConflictingRows(rows, m)
            THEN [rows[i] EXCEPT !.confidence = m.confidence, !.last_updated = now]
            ELSE rows[i]]

\* the match dicts match_markets can hand to the loop
ConfirmedDicts ==
    {[polymarket_id |-> pr[1], kalshi_id |-> pr[2], confidence |-> c,
      polymarket_yes |-> py, kalshi_yes |-> 50] :
        pr \in Pairs, c \in {90, 100}, py \in {20, 70}}

ConfirmedLists == {<<>>} \cup {<<m>> : m \in ConfirmedDicts}
                      \cup {<<m, n>> : m, n \in ConfirmedDicts}

NoUpsert == [polymarket_id |-> "", kalshi_id |-> "", confidence |-> 0, polymarket_yes |-> 0,
             kalshi_yes |-> 0]

CalcStartup ==
    /\ calc_in = [poly_yes |-> 0, kalshi_yes |-> 0]
    /\ calc_out = NoCalc
    /\ up_rows = <<>>
    /\ up_call = [todo |-> <<>>, now |-> 0, next_id |-> 1, last |-> NoUpsert, updated |-> FALSE]

upsertFrame == <<pollerVars, matchVars, clientVars, syncVars, frontVars, stopVars, fetchVars, sportsVars,
                 confirmVars, calc_in, calc_out>>

\* a cycle reaches the upsert loop with the list match_markets returned
UpsertLoopBegins ==
    /\ up_call.todo = <<>>
    /\ up_call.now < MaxUpsertCycles
    /\ \E returned \in ConfirmedLists \ {<<>>} :
         up_call' = [up_call EXCEPT !.todo = returned, !.now = @ + 1]
    /\ UNCHANGED <<up_rows, upsertFrame>>

\* one iteration of for m in confirmed: await db.execute(INSERT ...)
UpsertOne ==
    /\ up_call.todo # <<>>
    /\ up_rows' = UpsertRow(up_rows, up_call.next_id, Head(up_call.todo), up_call.now)
    /\ up_call' = [up_call EXCEPT !.todo = Tail(@), !.last = Head(up_call.todo),
                      !.next_id = IF Len(up_rows') > Len(up_rows) THEN @ + 1 ELSE @,
                      !.updated = Len(up_rows') = Len(up_rows)]
    /\ UNCHANGED upsertFrame

\* ------------------------------------------------------------------------
\* services/polymarket.py, services/kalshi.py: the paged fetch behind the
\* ingest.  An exchange lists its markets in pages of _PAGE_SIZE (100 and
\* 1000 in the source, one here); a page whose fetch fails on every retry
\* comes back empty, exactly as the page after the last one does.
\* ------------------------------------------------------------------------
_PAGE_SIZE == 1

\* the orders in which an exchange can list some of ids
ListingOrders(ids) ==
    {o \in UNION {[1..n -> ids] : n \in 0..Cardinality(ids)} :
        \A i, j \in 1..Len(o) : o[i] = o[j] => i = j}

NumPages(order) == (Len(order) + _PAGE_SIZE - 1) \div _PAGE_SIZE

\* _fetch_page / the retry loop of fetch_kalshi_markets: the page at
\* offset, or [] when this is the page whose fetch fails after its retries
\* (failed = 0: no fetch fails)
_fetch_page(order, offset, failed) ==
    IF failed = offset \div _PAGE_SIZE + 1 THEN <<>>
    ELSE SubSeq(order, offset + 1,
                IF offset + _PAGE_SIZE < Len(order) THEN offset + _PAGE_SIZE ELSE Len(order))

\* fetch_polymarket_markets / fetch_kalshi_markets: the loop over the pages
\* stops at the first empty page and after a short page
RECURSIVE fetch_markets(_, _, _)
fetch_markets(order, offset, failed) ==
    LET raw_markets == _fetch_page(order, offset, failed)
    IN IF raw_markets = <<>> THEN {}
       ELSE {raw_markets[i] : i \in 1..Len(raw_markets)} \cup
            (IF Len(raw_markets) < _PAGE_SIZE THEN {}
             ELSE fetch_markets(order, offset + _PAGE_SIZE, failed))

FetchStartup ==
    /\ upstream = NoListing
    /\ page_failed = [c \in WsClients |-> FALSE]

\* Step 1 with the fetches spelled out: each exchange lists some markets in
\* some order, at most one page fetch per exchange fails after its retries,
\* and the ingest upserts what the page loops collected
IngestPages(p) ==
    /\ pc[p] = "ingest"
    /\ \E po \in ListingOrders(PolyIds), ko \in ListingOrders(KalshiIds) :
         \E pf \in 0..NumPages(po), kf \in 0..NumPages(ko) :
            /\ upstream' = [poly |-> {po[i] : i \in 1..Len(po)},
                            kalshi |-> {ko[i] : i \in 1..Len(ko)}]
            /\ page_failed' = [poly |-> pf # 0, kalshi |-> kf # 0]
            /\ IngestReturned(p, fetch_markets(po, 0, pf), fetch_markets(ko, 0, kf))
    /\ UNCHANGED <<syncVars, frontVars, stopVars, pureVars>>

\* state of the later sections of the model at process start
ExtStartup ==
    /\ SyncStartup
    /\ FrontStartup
    /\ StopStartup
    /\ FetchStartup

\* no call of the matcher's functions is being followed
PureStartup ==
    /\ SportsStartup
    /\ ConfirmStartup
    /\ CalcStartup

\* the process has started: empty tables, both loops created, clients not
\* yet connected
ProcessStart ==
    /\ pc = StartPc
    /\ _cycle_lock = NewLock
    /\ _db_write_lock = NewLock
    /\ markets = [m \in Listings |-> NoRow]
    /\ volume = [m \in Listings |-> NoRow]
    /\ matches = [pr \in Pairs |-> NoRow]
    /\ match_row = [id \in MatchIds |-> NoFields]
    /\ next_match_id = 1
    /\ price_history = [id \in MatchIds |-> 0]
    /\ market_embeddings = {}
    /\ subscribed = {}
    /\ connected = [c \in WsClients |-> FALSE]
    /\ clock = _HISTORY_INTERVAL
    /\ _last_history_ts = [id \in MatchIds |-> 0]
    /\ ws_event = [c \in WsClients |-> NoEvent]
    /\ affected = [c \in WsClients |-> {}]
    /\ updates_to_broadcast = [c \in WsClients |-> <<>>]
    /\ ws_update = [c \in WsClients |-> "none"]
    /\ stream_rows = [id \in MatchIds |-> <<>>]
    /\ rf_matches = {}
    /\ rf_outcome = "none"
    /\ rest_rows = [id \in MatchIds |-> <<>>]
    /\ listing = [p \in CycleProcs |-> NoListing]
    /\ quoted = [p \in CycleProcs |-> NoQuote]
    /\ confirmed = [p \in CycleProcs |-> {}]
    /\ status = [t \in Triggers |-> "none"]
    /\ call = [t \in Triggers |-> NoCall]
    /\ events = 0
    /\ refreshes = 0
    /\ MatcherStartup
    /\ ClientStartup
    /\ ExtStartup

Startup ==
    /\ ProcessStart
    /\ PureStartup

vars == <<pollerVars, matchVars, clientVars, extVars>>

\* Spec: the discovery loop's cycles over the tables, with the REST price
\* refresh loop running beside them (the streaming clients stay disconnected)
Init ==
    /\ Startup
    /\ cycles = MaxCycles

Next ==
    \/ DiscoveryLoop
    \/ \E p \in CycleProcs : Ingest(p)
    \/ \E p \in CycleProcs : CleanupHistory(p)
    \/ \E p \in CycleProcs : CleanupMatches(p)
    \/ \E p \in CycleProcs : CleanupMarkets(p)
    \/ \E p \in CycleProcs : EmbedNewMarkets(p)
    \/ \E p \in CycleProcs : MatchStep(p)
    \/ \E p \in CycleProcs : Persist(p)
    \/ \E p \in CycleProcs : CommitAndResync(p)
    \/ RefreshStart
    \/ RefreshWrite
    \/ RefreshCommit

Spec == Init /\ [][Next]_vars

\* SpecIngest: the discovery loop's cycles over the tables with the paged
\* fetches of the two exchanges spelled out
NextIngest ==
    \/ DiscoveryLoop
    \/ \E p \in CycleProcs : IngestPages(p)
    \/ \E p \in CycleProcs : CleanupHistory(p)
    \/ \E p \in CycleProcs : CleanupMatches(p)
    \/ \E p \in CycleProcs : CleanupMarkets(p)
    \/ \E p \in CycleProcs : EmbedNewMarkets(p)
    \/ \E p \in CycleProcs : MatchStep(p)
    \/ \E p \in CycleProcs : Persist(p)
    \/ \E p \in CycleProcs : CommitAndResync(p)

SpecIngest == Init /\ [][NextIngest]_vars

\* SpecLock: the discovery loop and concurrent trigger_now calls around
\* _cycle_lock; each step of the cycle body is reduced to its control effect
InitLock ==
    /\ Startup
    /\ cycles = MaxLockCycles

NextLock ==
    \/ DiscoveryLoop
    \/ \E t \in Triggers : TriggerNow(t)
    \/ \E p \in CycleProcs : CycleLockResume(p)
    \/ \E p \in CycleProcs : CycleStepCompletes(p)
    \/ \E p \in CycleProcs : CycleStepRaises(p)
    \/ \E p \in CycleProcs : CommitAndResync(p)

SpecLock == InitLock /\ [][NextLock]_vars

\* SpecStream: the two streaming clients' price handlers and the REST price
\* refresh over a database in which a discovery cycle has persisted and
\* subscribed both pairs, within one throttle interval (SpecPrice lets time
\* pass)
\* (StreamBase: a database whose markets table holds every listing, quoted at 0.50)
StreamBase ==
    /\ pc = StartPc
    /\ _cycle_lock = NewLock
    /\ _db_write_lock = NewLock
    /\ markets = [m \in Listings |-> 50]
    /\ volume = [m \in Listings |-> 100]
    /\ price_history = [id \in MatchIds |-> 0]
    /\ market_embeddings = {m \in Listings : EmbedEligible(m)}
    /\ clock = _HISTORY_INTERVAL
    /\ _last_history_ts = [id \in MatchIds |-> 0]
    /\ ws_event = [c \in WsClients |-> NoEvent]
    /\ affected = [c \in WsClients |-> {}]
    /\ updates_to_broadcast = [c \in WsClients |-> <<>>]
    /\ ws_update = [c \in WsClients |-> "none"]
    /\ stream_rows = [id \in MatchIds |-> <<>>]
    /\ rf_matches = {}
    /\ rf_outcome = "none"
    /\ rest_rows = [id \in MatchIds |-> <<>>]
    /\ listing = [p \in CycleProcs |-> NoListing]
    /\ quoted = [p \in CycleProcs |-> NoQuote]
    /\ confirmed = [p \in CycleProcs |-> {}]
    /\ status = [t \in Triggers |-> "none"]
    /\ call = [t \in Triggers |-> NoCall]
    /\ cycles = 0
    /\ events = 0
    /\ refreshes = 0
    /\ MatcherStartup
    /\ ClientStartup
    /\ ExtStartup
    /\ PureStartup

StreamStartup ==
    /\ StreamBase
    /\ matches = Upserted([pr \in Pairs |-> NoRow], 1, <<<<"p1", "k1">>, <<"p2", "k1">>>>).rows
    /\ match_row = [id \in MatchIds |-> IF id <= Cardinality(Pairs)
                                         THEN InsertedFields(50, 50) ELSE NoFields]
    /\ next_match_id = Cardinality(Pairs) + 1
    /\ subscribed = Listings

InitStream ==
    /\ StreamStartup
    /\ connected = [c \in WsClients |-> FALSE]

NextStream ==
    \/ \E c \in WsClients : WsConnect(c)
    \/ \E c \in WsClients : WsDisconnect(c)
    \/ \E c \in WsClients : WsPriceEvent(c)
    \/ \E c \in WsClients : WsLockResume(c)
    \/ \E c \in WsClients : WsUpdateMarket(c)
    \/ \E c \in WsClients : WsUpdateMatches(c)
    \/ \E c \in WsClients : WsCommit(c)
    \/ \E c \in WsClients : WsBroadcastReturn(c)
    \/ RefreshStart
    \/ RefreshSkip
    \/ RefreshWrite
    \/ RefreshCommit

SpecStream == InitStream /\ [][NextStream]_vars

\* SpecHistory: the streaming price handlers and the REST price refresh as
\* time passes, while at least one of the two clients is disconnected (with
\* both connected the refresh loop only sleeps: SpecPrice).  The handler of
\* the one connected client never waits for _db_write_lock, which the
\* refresh does not take.
InitHistory ==
    /\ StreamStartup
    /\ connected \in {f \in [WsClients -> BOOLEAN] : \E c \in WsClients : ~f[c]}

NextHistory ==
    \/ \E c \in WsClients : WsPriceEvent(c)
    \/ \E c \in WsClients : WsUpdateMarket(c)
    \/ \E c \in WsClients : WsUpdateMatches(c)
    \/ \E c \in WsClients : WsCommit(c)
    \/ \E c \in WsClients : WsBroadcastReturn(c)
    \/ RefreshStart
    \/ RefreshWrite
    \/ RefreshCommit
    \/ Tick

SpecHistory == InitHistory /\ [][NextHistory]_vars

\* SpecPrice: the price handlers of the two connected streaming clients, from
\* the event to the return of the last broadcast callback, as time passes
InitPrice ==
    /\ StreamStartup
    /\ connected = [c \in WsClients |-> TRUE]

NextPrice ==
    \/ \E c \in WsClients : WsPriceEvent(c)
    \/ \E c \in WsClients : WsLockResume(c)
    \/ \E c \in WsClients : WsUpdateMarket(c)
    \/ \E c \in WsClients : WsUpdateMatches(c)
    \/ \E c \in WsClients : WsCommit(c)
    \/ \E c \in WsClients : WsBroadcastReturn(c)
    \/ Tick

SpecPrice == InitPrice /\ [][NextPrice]_vars

\* SpecClient: the life of the two streaming clients, from start() to
\* stop(), with the subscribe / unsubscribe calls of sync_subscriptions
InitClient ==
    /\ Startup
    /\ cycles = 0

NextClient ==
    \/ \E c \in WsClients : ClientStart(c)
    \/ \E c \in WsClients : ConnectOk(c)
    \/ \E c \in WsClients : ConnectFails(c)
    \/ \E c \in WsClients : ResubscribeSent(c)
    \/ \E c \in WsClients : ResubscribeFails(c)
    \/ \E c \in WsClients : ReceiveMessage(c)
    \/ \E c \in WsClients : HandlerRaises(c)
    \/ \E c \in WsClients : ConnectionLost(c)
    \/ \E c \in WsClients : BackoffElapsed(c)
    \/ \E c \in WsClients : \E ids \in SUBSET ExchangeOf(c) \ {{}} : ClientSubscribe(c, ids)
    \/ \E c \in WsClients : \E ids \in SUBSET ExchangeOf(c) \ {{}} : ClientUnsubscribe(c, ids)
    \/ \E c \in WsClients : StopNow(c)
    \/ \E c \in WsClients : StopClose(c)
    \/ \E c \in WsClients : StopCancel(c)

SpecClient == InitClient /\ [][NextClient]_vars

\* SpecSync: the startup call and the cycles' calls of sync_subscriptions
\* over a match set that the cycles change, with the clients connecting and
\* leaving their connections through an exception of the handler, which
\* clears the flag while the socket is still open (a lost connection also
\* resumes the sends pending on it).  The previous run of the process left
\* one match.
InitSync ==
    /\ StreamBase
    /\ matches = Upserted([pr \in Pairs |-> NoRow], 1, <<<<"p1", "k1">>>>).rows
    /\ match_row = [id \in MatchIds |-> IF id = 1 THEN InsertedFields(50, 50) ELSE NoFields]
    /\ next_match_id = 2
    /\ subscribed = {}
    /\ connected = [c \in WsClients |-> FALSE]

NextSync ==
    \/ \E c \in WsClients : ClientStart(c)
    \/ \E c \in WsClients : ConnectOk(c)
    \/ \E c \in WsClients : ResubscribeSent(c)
    \/ \E c \in WsClients : HandlerRaises(c)
    \/ \E c \in WsClients : BackoffElapsed(c)
    \/ \E s \in Syncs : SyncBegin(s)
    \/ \E s \in Syncs : SyncRead(s)
    \/ \E s \in Syncs : SyncApply(s)
    \/ \E s \in Syncs : SyncResume(s)
    \/ MatchSetChanges

SpecSync == InitSync /\ [][NextSync]_vars

\* SpecFront: frontend clients connecting, subscribing and leaving while
\* the price handlers broadcast
NextFront ==
    \/ \E ws \in FrontClients : FrontConnect(ws)
    \/ \E ws \in FrontClients : FrontDisconnect(ws)
    \/ \E ws \in FrontClients : \E mids \in SUBSET MatchIds \ {{}} : FrontSubscribe(ws, mids)
    \/ \E ws \in FrontClients : \E mids \in SUBSET MatchIds \ {{}} : FrontUnsubscribe(ws, mids)
    \/ \E c \in WsClients : \E mid \in MatchIds : BroadcastCall(c, mid)
    \/ \E c \in WsClients : \E mid \in MatchIds : BroadcastNoSubscribers(c, mid)
    \/ \E c \in WsClients : BroadcastSend(c)
    \/ \E c \in WsClients : BroadcastEnd(c)
    \/ \E c \in WsClients : BroadcastRaises(c)

SpecFront == InitPrice /\ [][NextFront]_vars

\* SpecStop: the discovery loop, the price refresh loop and trigger_now
\* calls, with cycles that fail, until and after poller.stop(); the steps
\* of a cycle and of a refresh pass are reduced to their control effect
InitStop ==
    /\ Startup
    /\ cycles = MaxStopCycles

NextStop ==
    \/ DiscoveryIteration
    \/ DiscoveryCycleFails
    \/ \E t \in Triggers : TriggerNow(t)
    \/ \E p \in CycleProcs : CycleLockResume(p)
    \/ \E p \in CycleProcs : CycleStepCompletes(p)
    \/ \E t \in Triggers : CycleStepRaises(t)
    \/ \E p \in CycleProcs : CommitAndResync(p)
    \/ \E c \in WsClients : WsConnect(c)
    \/ RefreshLoopIteration
    \/ RefreshPassEnds
    \/ \E t \in LoopTasks : LoopExits(t)
    \/ StopCalled
    \/ TaskJoined
    \/ GraceElapsed

SpecStop == InitStop /\ [][NextStop]_vars

\* the event loop runs every task that is ready and fires every timer: a
\* loop whose sleep has ended resumes, and stop() resumes when the task it
\* awaits has ended or its 10 seconds have elapsed, and the interval sleep
\* of the discovery loop times out.  No step of a cycle or of a refresh
\* pass is assumed to end.
SpecStopFair ==
    /\ SpecStop
    /\ WF_vars(DiscoveryIteration)
    /\ \A t \in LoopTasks : WF_vars(LoopExits(t))
    /\ WF_vars(TaskJoined)
    /\ WF_vars(GraceElapsed)

\* SpecSports: match_sports_deterministic applied to a Polymarket market
\* and a list of Kalshi markets, as listed, with the team codes of the slug
\* or of the tickers swapped, and as a discovery cycle hands them over
InitSports ==
    /\ ProcessStart
    /\ cycles = 0
    /\ \E m \in PolyInputs : poly_markets = <<m>>
    /\ kalshi_markets \in KalshiLists
    /\ matched = NoMatched
    /\ ConfirmStartup
    /\ CalcStartup

NextSports ==
    \/ DetCall
    \/ DetCallPolySwapped
    \/ DetCallKalshiSwapped
    \/ CycleDetCall

SpecSports == InitSports /\ [][NextSports]_vars

\* SpecOrient: check_sports_orientation applied to one Kalshi market id and
\* the team codes of one slug
InitOrient ==
    /\ ProcessStart
    /\ cycles = 0
    /\ \E m \in OrientPolyInputs : poly_markets = <<m>>
    /\ \E k \in OrientKalshiInputs : kalshi_markets = <<k>>
    /\ matched = NoMatched
    /\ ConfirmStartup
    /\ CalcStartup

NextOrient == OrientationCall

SpecOrient == InitOrient /\ [][NextOrient]_vars

\* SpecCalc: calculate_spread applied to every pair of whole-cent prices
InitCalc ==
    /\ ProcessStart
    /\ SportsStartup
    /\ ConfirmStartup
    /\ cycles = 0
    /\ calc_in \in [poly_yes : CalcPrices, kalshi_yes : CalcPrices]
    /\ calc_out = NoCalc
    /\ up_rows = <<>>
    /\ up_call = [todo |-> <<>>, now |-> 0, next_id |-> 1, last |-> NoUpsert, updated |-> FALSE]

NextCalc == CalcCall

SpecCalc == InitCalc /\ [][NextCalc]_vars

\* SpecUpsert: the upsert loop of successive cycles, each with a list of
\* confirmed matches
InitUpsert ==
    /\ ProcessStart
    /\ PureStartup
    /\ cycles = 0

NextUpsert ==
    \/ UpsertLoopBegins
    \/ UpsertOne

SpecUpsert == InitUpsert /\ [][NextUpsert]_vars

\* SpecConfirm: match_markets called, up to MaxMatchCalls times, with one
\* pair of markets that is the only embedding candidate; no match is
\* stored in the matches table
InitConfirm ==
    /\ ProcessStart
    /\ SportsStartup
    /\ CalcStartup
    /\ cycles = 0
    /\ mm_in \in ConfirmInputs
    /\ mm_out = NoCallOut

NextConfirm ==
    \/ CandidateSkipped
    \/ CandidateBelowThreshold
    \/ CandidateSent
    \/ ReplyHandled
    \/ MatchMarketsAgain

SpecConfirm == InitConfirm /\ [][NextConfirm]_vars

\* SpecMatch: the match_markets calls of successive discovery cycles
InitMatch ==
    /\ Startup
    /\ cycles = 0

NextMatch ==
    \/ MatchMarketsCall
    \/ Pass2CapReached
    \/ Pass2Cached
    \/ Pass2Rejected
    \/ Pass2Prefilter
    \/ Pass2Confirm
    \/ MatchMarketsReturn

SpecMatch == InitMatch /\ [][NextMatch]_vars

\* ------------------------------------------------------------------------
\* Properties
\* ------------------------------------------------------------------------
\* C1 (SpecLock): at every moment at most one task is executing the body of
\* _run_cycle, whatever the interleaving of the discovery loop and the
\* trigger_now calls.
C1_OneCycleAtATime ==
    \A p, q \in CycleProcs : (pc[p] \in CycleBody /\ pc[q] \in CycleBody) => p = q

\* a cycle is executing while another caller of _run_cycle waits for the lock
C1_Witness ==
    \E p, q \in CycleProcs : pc[p] \in CycleBody /\ pc[q] = "lock_wait"

ZeroRecords(l) == l.poly = {} \/ l.kalshi = {}

\* a step taken while a cycle whose ingest returned zero records for either
\* exchange is executing (the step of its ingest included)
InZeroRecordsCycle ==
    \E p \in CycleProcs :
        /\ pc[p] \in CycleBody
        /\ IF pc[p] = "ingest" THEN pc'[p] \in CycleBody /\ ZeroRecords(listing'[p])
           ELSE ZeroRecords(listing[p])

NoRowRemoved ==
    /\ \A m \in Listings : markets[m] # NoRow => markets'[m] # NoRow
    /\ \A pr \in Pairs : matches[pr] # NoRow => matches'[pr] = matches[pr]
    /\ \A id \in MatchIds : price_history'[id] >= price_history[id]

\* C3 (Spec), as stated: in a cycle where either exchange's ingest returned
\* zero records no listing, match, history row or embedding is removed.
C3_NothingRemoved ==
    [][InZeroRecordsCycle => (NoRowRemoved /\ market_embeddings \subseteq market_embeddings')]_vars

\* C3 (Spec), amended: in such a cycle the diff cleanup is skipped and no
\* listing, match or history row is removed; the only embeddings removed are
\* those of listings that are no longer eligible for embedding, which the
\* embedding step prunes in every cycle.
C3_NothingRemovedButIneligibleEmbeddings ==
    [][InZeroRecordsCycle =>
          /\ NoRowRemoved
          /\ \A p \in CycleProcs : pc'[p] \notin {"cleanup_hist", "cleanup_matches", "cleanup_markets"}
          /\ \A m \in market_embeddings \ market_embeddings' :
                /\ ~EmbedEligible(m)
                /\ \E p \in CycleProcs : pc[p] = "embed"]_vars

\* a cycle that got nothing from an exchange is past the guard while a
\* persisted match with history rows has a side missing from its listing
C3_Witness ==
    \E p \in CycleProcs :
        /\ pc[p] \in {"embed", "match", "persist", "commit"}
        /\ ZeroRecords(listing[p])
        /\ \E pr \in Pairs :
              /\ matches[pr] # NoRow
              /\ price_history[matches[pr]] > 0
              /\ (pr[1] \notin listing[p].poly \/ pr[2] \notin listing[p].kalshi)

PriceWriters == {c \in WsClients : pc[c] \in WsSection}
                    \cup (IF pc[Refresh] = "rf_commit" THEN {Refresh} ELSE {})

\* C5 (SpecStream): no two writers of price fields (the REST refresh, either
\* streaming client) are inside their write sections at the same time.
C5_WritersExclusive == Cardinality(PriceWriters) <= 1

\* C6 (SpecStream): at most one invocation of _update_market_and_matches,
\* from either client, is inside its update-and-commit section at any time.
C6_OneStreamingWriter ==
    \A c, d \in WsClients : (pc[c] \in WsSection /\ pc[d] \in WsSection) => c = d

\* one client's handler is in the section while the other's waits for the lock
C6_Witness ==
    \E c, d \in WsClients : pc[c] \in WsSection /\ pc[d] = "ws_wait"

\* the step sends a candidate to the confirmation service
ConfirmationCall == Len(groq_calls') = Len(groq_calls) + 1

\* C7 (SpecMatch): no confirmation call is ever made for a pair that is in
\* the rejection cache or in the persisted match set, a pair that receives a
\* valid rejection is put in the rejection cache, and nothing ever leaves it.
C7_CachesConsulted ==
    [][/\ ConfirmationCall =>
             LET pr == groq_calls'[Len(groq_calls')] IN
               /\ KeyOf(pr) \notin _rejected_keys
               /\ matches[pr] = NoRow
               /\ response'.outcome \in ValidRejections => KeyOf(pr) \in _rejected_keys'
       /\ _rejected_keys \subseteq _rejected_keys']_vars

\* a later call has skipped a candidate that an earlier call saw rejected,
\* and has skipped a candidate that is persisted
C7_Witness ==
    /\ match_calls = MaxMatchCalls
    /\ pc[Matcher] = "mm_pass2"
    /\ candidates = <<>>
    /\ groq_calls = <<>>
    /\ \E a, b \in Pairs :
          /\ a # b
          /\ embedding_candidates = <<a, b>>
          /\ a \notin SeqRange(det_raw)
          /\ b \notin SeqRange(det_raw)
          /\ KeyOf(a) \in _rejected_keys
          /\ response.pair = a
          /\ response.outcome = "rejected"
          /\ matches[b] # NoRow

\* C8 (SpecMatch): a candidate whose confirmation call yields a malformed or
\* absent response, or fails, is not added to the rejection cache.
C8_NoAnswerNotCached ==
    [][(ConfirmationCall /\ response'.outcome \in NoAnswer) =>
          _rejected_keys' = _rejected_keys]_vars

\* C9 (SpecMatch): in one match_markets call at most
\* _MAX_CONFIRMATIONS_PER_CYCLE candidates reach the confirmation service.
C9_CapRespected == Len(groq_calls) <= _MAX_CONFIRMATIONS_PER_CYCLE

RECURSIVE Count(_, _)
Count(x, q) == IF q = <<>> THEN 0 ELSE (IF Head(q) = x THEN 1 ELSE 0) + Count(x, Tail(q))

\* C10 (SpecMatch): a pair produced in one call by the deterministic path and
\* by the embedding or keyword path appears at most once in the returned
\* matches, and no confirmation call is made for it.
C10_DeterministicOnce ==
    \A pr \in SeqRange(det_raw) \cap (SeqRange(embedding_candidates) \cup SeqRange(kw_candidates)) :
        /\ pr \notin SeqRange(groq_calls)
        /\ Count(pr, det_confirmed \o pass2_confirmed) <= 1

\* pass 2 has gone through a list that held a new deterministic match and
\* has sent only the other candidate to the confirmation service
C10_Witness ==
    /\ pc[Matcher] = "mm_pass2"
    /\ candidates = <<>>
    /\ \E pr \in SeqRange(det_raw) \cap SeqRange(embedding_candidates) :
          /\ pr \in SeqRange(det_confirmed)
          /\ groq_calls # <<>>
          /\ \E k \in SeqRange(det_raw) \cap SeqRange(kw_candidates) : TRUE

\* an iteration of _price_refresh_loop starts
RefreshIteration == refreshes' = refreshes + 1

StepRank(l) ==
    CASE l = "ingest" -> 1
      [] l \in {"cleanup_hist", "cleanup_matches", "cleanup_markets"} -> 2
      [] l = "embed" -> 3
      [] l = "match" -> 4
      [] l = "persist" -> 5
      [] l = "commit" -> 6
      [] OTHER -> 0

\* C12 (Spec): a task inside the cycle body moves from a step only to the
\* step that follows it in the order ingest, diff cleanup, embed, match,
\* persist, subscription resync (the cleanup is passed over when its guard is
\* false; its three statements run in their own order), or it leaves the
\* cycle; it never goes back to a step, and it enters the cycle at the
\* ingest.
C12_FixedStepOrder ==
    [][\A p \in CycleProcs :
          /\ (pc[p] \in CycleBody /\ pc'[p] \in CycleBody /\ pc'[p] # pc[p]) =>
                \/ StepRank(pc'[p]) = StepRank(pc[p]) + 1
                \/ pc[p] = "ingest" /\ pc'[p] = "embed"
                \/ <<pc[p], pc'[p]>> \in {<<"cleanup_hist", "cleanup_matches">>,
                                           <<"cleanup_matches", "cleanup_markets">>}
          /\ (pc[p] \notin CycleBody /\ pc'[p] \in CycleBody) => pc'[p] = "ingest"
          /\ (pc[p] \in CycleBody /\ pc'[p] \notin CycleBody) => pc'[p] = AfterCycle(p)]_vars

\* a cycle has run its cleanup, embedded, matched and persisted a pair and
\* is about to resync
C12_Witness ==
    /\ pc[Disc] = "commit"
    /\ confirmed[Disc] # {}
    /\ \A pr \in confirmed[Disc] : matches[pr] # NoRow
    /\ CleanupGuard(listing[Disc])
    /\ market_embeddings # {}

\* the streaming path never appended two history rows for one match less
\* than a throttle interval apart
StreamRowsThrottled ==
    \A id \in MatchIds : \A i, j \in 1..Len(stream_rows[id]) :
        i < j => stream_rows[id][j] - stream_rows[id][i] >= _HISTORY_INTERVAL

\* client c's handler runs its loop over the matches of the event's listing
MatchesLoop(c) == pc[c] = "ws_matches" /\ pc'[c] # "ws_matches"

\* the yes price of listing mid as the matches row id holds it
LivePrice(row, id, mid) ==
    IF PairOfId(id)[1] = mid THEN row.polymarket_yes ELSE row.kalshi_yes

\* C13 (SpecPrice): of the streaming events for one match that fall within
\* one throttle interval at most one appends a history row for the match,
\* and every streaming event for the match leaves the event's price and the
\* spread of that price with the other side's in the row of the match.
C13_ThrottledHistoryLivePrice ==
    [][/\ StreamRowsThrottled'
       /\ \A c \in WsClients : MatchesLoop(c) =>
            \A id \in MatchesOf(ws_event[c].mid) :
               /\ LivePrice(match_row'[id], id, ws_event[c].mid) = ws_event[c].yes
               /\ match_row'[id].spread =
                    calculate_spread(match_row'[id].polymarket_yes,
                                     match_row'[id].kalshi_yes).raw_spread]_vars

\* a step of client c's handler inside its update
HandlerStep(c) == pc[c] \in WsSection /\ pc'[c] # pc[c]

\* C14 (SpecPrice): a step of the handler of a streaming price event changes
\* no volume, neither of a listing nor of a match, leaves the price of every
\* listing but the event's own as it was, adds and removes no row, and leaves
\* every match that does not reference the event's listing as it was.
C14_OnlyPriceFieldsChange ==
    [][\A c \in WsClients : HandlerStep(c) =>
          /\ volume' = volume
          /\ \A m \in Listings \ {ws_event[c].mid} : markets'[m] = markets[m]
          /\ markets[ws_event[c].mid] # NoRow => markets'[ws_event[c].mid] # NoRow
          /\ matches' = matches
          /\ \A id \in MatchIds :
               /\ match_row'[id].polymarket_volume = match_row[id].polymarket_volume
               /\ match_row'[id].kalshi_volume = match_row[id].kalshi_volume
               /\ id \notin MatchesOf(ws_event[c].mid) => match_row'[id] = match_row[id]]_vars

\* a handler has written the event's new price to its listing and to a match
\* of the listing, and the volumes are those of the REST ingest
C14_Witness ==
    \E c \in WsClients :
        /\ pc[c] = "ws_commit"
        /\ ws_event[c].yes = 1
        /\ markets[ws_event[c].mid] = 1
        /\ volume[ws_event[c].mid] = 100
        /\ \E id \in MatchesOf(ws_event[c].mid) :
              LivePrice(match_row[id], id, ws_event[c].mid) = 1

\* C15 (SpecPrice): when the handler of a streaming price event has run its
\* loop, every persisted match that references the event's listing holds the
\* raw and the fee-adjusted spread of the current yes prices of its two
\* listings, whatever the price of the event.
C15_SpreadRecomputed ==
    [][\A c \in WsClients : MatchesLoop(c) =>
          \A id \in MatchesOf(ws_event[c].mid) :
             LET now == calculate_spread(markets[PairOfId(id)[1]], markets[PairOfId(id)[2]])
             IN /\ match_row'[id].fee_adjusted_spread = now.fee_adjusted_spread
                /\ match_row'[id].spread = now.raw_spread]_vars

\* C16 (SpecPrice): while a broadcast callback of a price update is invoked
\* the update has been committed, it has not failed, and the task is past its
\* async with block: if _db_write_lock is held, the other client holds it.
C16_BroadcastAfterCommit ==
    \A c \in WsClients :
       pc[c] = "ws_broadcast" =>
          /\ ws_update[c] = "committed"
          /\ updates_to_broadcast[c] # <<>>
          /\ Locked(_db_write_lock) => \E d \in WsClients \ {c} : pc[d] \in WsSection

\* a callback is being invoked for a committed update while the other client
\* is inside its locked update
C16_Witness ==
    \E c \in WsClients, d \in WsClients :
        /\ c # d
        /\ pc[c] = "ws_broadcast"
        /\ Len(updates_to_broadcast[c]) = 2
        /\ pc[d] = "ws_matches"

\* C17 (SpecPrice): while a broadcast callback invoked for a client's event
\* has not returned, that client can still take its next price event.
C17_BroadcastDoesNotStall ==
    \A c \in WsClients :
       (pc[c] = "ws_broadcast" /\ connected[c] /\ events < MaxEvents) =>
           ENABLED WsPriceEvent(c)

\* a connection attempt of client c begins in this step
AttemptBegins(c) == _task'[c] = "connecting" /\ _task[c] # "connecting"

\* client c begins to wait in this step; the delay is the current backoff
WaitBegins(c) == _task'[c] = "sleeping" /\ _task[c] # "sleeping"

\* C18: whenever a running client's connection attempt fails or its
\* connection is lost, the client waits a backoff delay before its next
\* connection attempt: every attempt but the first begins out of a wait; the
\* delay is 1 second at first, twice the previous delay after each further
\* failure, and never above WS_RECONNECT_MAX_SECONDS.
C18_BackoffBeforeReconnect ==
    [][\A c \in WsClients :
          /\ (AttemptBegins(c) /\ _task[c] # "none") => _task[c] = "sleeping"
          /\ WaitBegins(c) =>
                /\ backoff[c] = IF last_delay[c] = 0 THEN 1
                                ELSE Min(2 * last_delay[c], WS_RECONNECT_MAX_SECONDS)
                /\ backoff[c] <= WS_RECONNECT_MAX_SECONDS]_vars

ApiCallOn(c) == api_calls' # api_calls /\ api_call'.client = c

\* C20: on every established connection the client sends, before it handles
\* any incoming message, one subscribe message for exactly its tracked set
\* (none when the set is empty); identifiers added or removed while the
\* client is disconnected only change the tracked set, which nothing else
\* changes; subscribing identifiers that are all tracked sends nothing and
\* leaves the set unchanged.
C20_Resubscribe ==
    [][\A c \in WsClients :
          /\ (connected'[c] /\ ~connected[c]) =>
                /\ wire'[c] = IF _subscribed_ids[c] = {} THEN <<>>
                              ELSE <<SubscribeMsg(_subscribed_ids[c])>>
                /\ ~handled'[c]
                /\ UNCHANGED _subscribed_ids
          /\ (handled'[c] /\ ~handled[c]) => _task[c] = "receiving"
          /\ _subscribed_ids'[c] # _subscribed_ids[c] => ApiCallOn(c)
          /\ (ApiCallOn(c) /\ api_call'.op = "subscribe") =>
                /\ api_call'.ids \subseteq _subscribed_ids[c] =>
                      /\ wire'[c] = wire[c]
                      /\ _subscribed_ids'[c] = _subscribed_ids[c]
                /\ ~connected[c] =>
                      /\ wire'[c] = wire[c]
                      /\ _subscribed_ids'[c] = _subscribed_ids[c] \cup api_call'.ids
          /\ (ApiCallOn(c) /\ api_call'.op = "unsubscribe" /\ ~connected[c]) =>
                /\ wire'[c] = wire[c]
                /\ _subscribed_ids'[c] = _subscribed_ids[c] \ api_call'.ids]_vars

\* a client has just connected and resubscribed to the one identifier that
\* is left of its tracked set after the latest call removed another
C20_Witness ==
    \E c \in WsClients :
        /\ _task[c] = "resubscribing"
        /\ api_call = [client |-> c, op |-> "unsubscribe", ids |-> {"p2"}]
        /\ _subscribed_ids[c] = {"p1"}
        /\ wire[c] = <<SubscribeMsg({"p1"})>>

\* no sync_subscriptions call is in progress
SyncsComplete == \A s \in Syncs : sync_pc[s].at \in {"none", "done"}

\* the maps' keys and each client's tracked set are the identifiers of the
\* persisted matches
SubscriptionsInStep ==
    /\ subscribed = DesiredSubscriptions
    /\ \A c \in WsClients : _subscribed_ids[c] = DesiredSubscriptions \cap ExchangeOf(c)

\* sync s computes its diff in this step
SyncDiffs(s) == sync_pc[s].at = "fetched" /\ sync_pc'[s].at # "fetched"

\* C21: once every sync_subscriptions call in progress has completed and
\* the persisted match set has not changed since the most recently started
\* call began, the key sets of the maps and each client's tracked set equal
\* the identifier set derived from the persisted matches; a sync subscribes
\* only identifiers that were not tracked and unsubscribes only identifiers
\* that are not desired.
C21_SubscriptionsFollowMatches ==
    /\ []((SyncsComplete /\ fresh) => SubscriptionsInStep)
    /\ [][\A s \in Syncs :
            SyncDiffs(s) =>
                /\ \A c \in WsClients : sync_new'[s] \cap _subscribed_ids[c] = {}
                /\ sync_removed'[s] \cap sync_desired[s] = {}]_vars

\* in this step the broadcast of handler c begins to send to a socket
SendBegins(c) == Len(bcast'[c].sent) > Len(bcast[c].sent)

\* C22: a price update for a match is sent only to frontend clients that
\* are subscribed to that match id when the send begins: a client that
\* never subscribed to the id, or has unsubscribed from it or disconnected,
\* is not sent it.
C22_OnlySubscribersReceive ==
    [][\A c \in WsClients :
          SendBegins(c) =>
              LET ws == bcast'[c].sent[Len(bcast'[c].sent)]
              IN  /\ ws \in DOMAIN _connections
                  /\ bcast'[c].match_id \in _connections[ws]]_vars

\* a broadcast has sent to one subscriber, and the other client has
\* unsubscribed from the match since the broadcast began
C22_Witness ==
    \E c \in WsClients :
        /\ bcast[c].sent = <<"w1">>
        /\ bcast[c].changed
        /\ "w2" \in DOMAIN _connections
        /\ bcast[c].match_id \notin _connections["w2"]

\* C23 (SpecStopFair): after stop() is called, a loop that is sleeping
\* leaves its sleep without starting another cycle or refresh pass; a task
\* is cancelled only by stop(), once the 10 seconds it grants that task
\* have elapsed with the task still running; both loop tasks end, and
\* stop() returns, with both tasks ended.
C23_StopEndsLoops ==
    /\ [][\A t \in LoopTasks :
            /\ (_stop_event /\ pc[t] = SleepOf(t)) =>
                   pc'[t] \in {SleepOf(t), "exited", "cancelled"}
            /\ (pc'[t] = "cancelled" /\ pc[t] # "cancelled") =>
                   (t = Awaited /\ stop_call \in {"discovery", "refresh"})]_vars
    /\ [](stop_call = "returned" => \A t \in LoopTasks : Done(t))
    /\ _stop_event ~> (\A t \in LoopTasks : Done(t))
    /\ (stop_call # "none") ~> (stop_call = "returned")

\* stop() has returned after the discovery loop left its sleep and the
\* refresh loop, still in a pass after its 10 seconds, was cancelled
C23_Witness ==
    /\ stop_call = "returned"
    /\ pc[Disc] = "exited"
    /\ pc[Refresh] = "cancelled"
    /\ cycles < MaxStopCycles

\* C24 (SpecStopFair): a discovery cycle that ends with an exception
\* leaves the discovery loop in its interval sleep with _cycle_lock
\* released; the lock is held only while a task is inside the body of a
\* cycle, so trigger_now answers "busy" only while a cycle is running; and
\* unless stop() is called the loop goes on to another cycle after the
\* sleep (as long as the model has cycles left to explore).
C24_FailedCycleLoopGoesOn ==
    /\ [][failures' > failures =>
             /\ pc'[Disc] = "loop"
             /\ ~Locked(_cycle_lock')]_vars
    /\ [](Locked(_cycle_lock) => CycleInFlight)
    /\ (failures > 0 /\ pc[Disc] = "loop" /\ ~_stop_event /\ cycles > 0)
          ~> (pc[Disc] \in CycleBody \cup {"lock_wait"} \/ _stop_event \/ cycles = 0)

\* the discovery loop is inside the cycle that follows a failed one
C24_Witness ==
    /\ failures = 1
    /\ pc[Disc] \in CycleBody
    /\ ~_stop_event

\* the Kalshi markets listed for the game of the Polymarket market whose
\* YES team is, or is not, the first team of the slug
SiblingsOf(orientation) ==
    LET m == poly_markets[1]
        parsed == parse_poly_slug(m.event_slug)
        ids == GameIds(m, kalshi_markets)
    IN  {i \in 1..Len(ids) :
            check_sports_orientation(ids[i], parsed.team1, parsed.team2) = orientation}

EndToEndScenario ==
    /\ poly_markets[1].event_slug = PolySlug("nba", Okc, Det)
    /\ poly_markets[1].sports_market_type = "moneyline"
    /\ Len(kalshi_markets) = 1
    /\ kalshi_markets[1].event_ticker = KalshiTicker(GameDay, Okc \o Det)
    /\ kalshi_markets[1].id.yes \in {<<>>, Okc}

\* C28 (SpecSports): in a discovery cycle that ingested a moneyline
\* Polymarket listing nba-okc-det-2026-02-25 and a Kalshi listing of
\* KXNBAGAME-26FEB25OKCDET, Pass 0 of match_markets produces exactly one
\* match, of that pair, with confidence 1.0.
C28_CycleMatchesDeterministically ==
    ("cycle" \in matched.ran /\ EndToEndScenario) =>
        matched.cycle = <<[poly_id |-> poly_markets[1].id,
                           kalshi_id |-> kalshi_markets[1].id, confidence |-> 100]>>

\* C30 (SpecSports), as stated: swapping the two team codes in the slug, or
\* in the team suffix of every ticker, yields the same match as the input
\* as listed, whether or not the Kalshi ids carry a YES team.
C30_SameMatchWhenSwapped ==
    /\ {"direct", "poly_swapped"} \subseteq matched.ran => matched.poly_swapped = matched.direct
    /\ {"direct", "kalshi_swapped"} \subseteq matched.ran =>
           matched.kalshi_swapped = matched.direct

\* the Kalshi ids of the game of the Polymarket market
GameIdSet ==
    LET ids == GameIds(poly_markets[1], kalshi_markets)
    IN  {ids[i] : i \in 1..Len(ids)}

\* C30 (SpecSports), amended: swapping the team codes in the team suffix of
\* the tickers yields the same match; swapping them in the slug yields the
\* same match when no Kalshi market of the game carries a YES team, and
\* otherwise a match, if any, with a Kalshi market of the same game whose
\* YES team is not the second team of the swapped slug.
C30_SameGameWhenSwapped ==
    /\ {"direct", "kalshi_swapped"} \subseteq matched.ran =>
           matched.kalshi_swapped = matched.direct
    /\ ({"direct", "poly_swapped"} \subseteq matched.ran /\ Eligible(poly_markets[1])) =>
           LET swapped == parse_poly_slug(SwapSlug(poly_markets[1]).event_slug)
           IN  /\ (\A id \in GameIdSet : id.yes = <<>>) => matched.poly_swapped = matched.direct
               /\ \A i \in 1..Len(matched.poly_swapped) :
                     /\ matched.poly_swapped[i].kalshi_id \in GameIdSet
                     /\ check_sports_orientation(matched.poly_swapped[i].kalshi_id,
                                                 swapped.team1, swapped.team2) # "inverted"

\* both siblings are listed with their YES teams: the slug as listed is
\* matched with one, the swapped slug with the other, and the swapped
\* tickers give the match of the listed ones
C30_Witness ==
    /\ matched.ran = {"direct", "poly_swapped", "kalshi_swapped"}
    /\ Len(matched.direct) = 1
    /\ Len(matched.poly_swapped) = 1
    /\ matched.direct[1].kalshi_id.yes = Okc
    /\ matched.poly_swapped[1].kalshi_id.yes = Det
    /\ matched.poly_swapped[1].kalshi_id.event = matched.direct[1].kalshi_id.event
    /\ matched.kalshi_swapped = matched.direct

\* C25 (SpecConfirm): when the confirmation service answers "confirmed"
\* with the inverted flag set, match_markets returns no match of the pair
\* and the pair is in the rejection cache, so that no later call returns it
\* either; every match returned carries the YES prices of its two markets
\* as they are, never 1 - price.
C25_InvertedNeverReturned ==
    mm_out.at = "returned" =>
        /\ (mm_out.reply.kind = "json" /\ mm_out.reply.confirmed /\ mm_out.reply.inverted) =>
              /\ mm_out.returned = <<>>
              /\ CandKey \in _rejected_keys
        /\ CandKey \in _rejected_keys => mm_out.returned = <<>>
        /\ \A i \in 1..Len(mm_out.returned) :
              /\ mm_out.returned[i].polymarket_yes = mm_in.poly.yes_price
              /\ mm_out.returned[i].kalshi_yes = mm_in.kalshi.yes_price

\* a pair with complementary prices was confirmed as inverted, and the
\* call returned nothing
C25_Witness ==
    /\ mm_out.at = "returned"
    /\ mm_out.reply.kind = "json" /\ mm_out.reply.confirmed /\ mm_out.reply.inverted
    /\ mm_in.poly.yes_price = 100 - mm_in.kalshi.yes_price
    /\ mm_out.returned = <<>>

\* the amounts a question mentions: a magnitude letter belongs to the
\* amount when it is all that follows it, not when it begins a word
MentionedThresholds(text) ==
    IF text.kind # "dollar" THEN {}
    ELSE IF Len(SkipSpaces(text.after)) = 1
         THEN {<<text.num, SuffixScale(Head(SkipSpaces(text.after)))>>}
    ELSE {<<text.num, 0>>}

\* both end dates are present and more than the tolerance apart
DatesApart(in) ==
    /\ in.poly.end_date.kind = "iso"
    /\ in.kalshi.end_date.kind = "iso"
    /\ Abs(in.poly.end_date.t - in.kalshi.end_date.t) > _DATE_TOLERANCE_SECONDS

\* both questions mention amounts, and no amount of one is an amount of
\* the other
ThresholdsApart(in) ==
    /\ MentionedThresholds(in.poly.question) # {}
    /\ MentionedThresholds(in.kalshi.question) # {}
    /\ MentionedThresholds(in.poly.question) \cap MentionedThresholds(in.kalshi.question) = {}

\* C26 (SpecConfirm): a candidate whose end dates are both present and
\* more than the tolerance apart, or whose questions both mention amounts
\* with nothing in common, is never sent to the confirmation service and
\* is not in the list match_markets returns.
C26_PrefilteredNeverSent ==
    (DatesApart(mm_in) \/ ThresholdsApart(mm_in)) =>
        /\ ~mm_out.sent
        /\ mm_out.returned = <<>>

\* the prices fit an inverted pair far better than an aligned one: the
\* Polymarket YES price is within 5 cents of 1 minus the Kalshi YES price
\* and more than 20 cents from the Kalshi YES price
InvertedFitsFarBetter(in) ==
    /\ Abs(in.poly.yes_price - (100 - in.kalshi.yes_price)) <= 5
    /\ Abs(in.poly.yes_price - in.kalshi.yes_price) > 20

\* C29 (SpecConfirm): a pair that is not a deterministic match, that the
\* confirmation service confirmed as not inverted, whose sports
\* orientation is "unknown" and whose prices fit an inverted pair far
\* better than an aligned one is not returned by match_markets and is in
\* the rejection cache.
C29_PriceInversionRejected ==
    (/\ mm_out.at = "returned"
     /\ mm_out.reply.kind = "json" /\ mm_out.reply.confirmed /\ ~mm_out.reply.inverted
     /\ DetConfirmed(mm_in) = <<>>
     /\ Orientation(mm_in) = "unknown"
     /\ InvertedFitsFarBetter(mm_in)) =>
        /\ mm_out.returned = <<>>
        /\ CandKey \in _rejected_keys

\* days between the date of the slug and the date of a Kalshi market
DayGap(id) == Abs(id.event.dd - poly_markets[1].event_slug.date.d)

\* the listed Kalshi markets whose YES team is not the second team of the
\* slug
NotInverted ==
    LET parsed == parse_poly_slug(poly_markets[1].event_slug)
    IN  {i \in 1..Len(kalshi_markets) :
            check_sports_orientation(kalshi_markets[i].id, parsed.team1, parsed.team2)
                # "inverted"}

SportsIdWithYes(id) ==
    /\ id.scheme = "kalshi:"
    /\ KALSHI_LEAGUE_MAP(id.event.series) # ""
    /\ id.yes # <<>>

\* one code begins with the other, both of two characters at least
PrefixRelated(a, b) ==
    /\ Len(a) >= 2
    /\ Len(b) >= 2
    /\ (StartsWith(a, b) \/ StartsWith(b, a))

C33_OneRowPerPair ==
    /\ [](\A i, j \in 1..Len(up_rows) :
             (up_rows[i].polymarket_id = up_rows[j].polymarket_id
                 /\ up_rows[i].kalshi_id = up_rows[j].kalshi_id) => i = j)
    /\ [][/\ Len(up_rows') >= Len(up_rows)
          /\ \A i \in 1..Len(up_rows) :
                /\ up_rows'[i].id = up_rows[i].id
                /\ up_rows'[i].polymarket_id = up_rows[i].polymarket_id
                /\ up_rows'[i].kalshi_id = up_rows[i].kalshi_id
                /\ up_rows'[i].polymarket_yes = up_rows[i].polymarket_yes
                /\ up_rows'[i].kalshi_yes = up_rows[i].kalshi_yes
                /\ up_rows'[i].spread = up_rows[i].spread
                /\ up_rows'[i].fee_adjusted_spread = up_rows[i].fee_adjusted_spread
                /\ (up_call.todo # <<>>
                       /\ up_rows[i].polymarket_id = Head(up_call.todo).polymarket_id
                       /\ up_rows[i].kalshi_id = Head(up_call.todo).kalshi_id) =>
                      /\ Len(up_rows') = Len(up_rows)
                      /\ up_rows'[i].confidence = Head(up_call.todo).confidence
                      /\ up_rows'[i].last_updated = up_call.now]_vars

\* a pair persisted by the first cycle was confirmed again by the second
\* with another confidence and another Polymarket price: its row has the
\* new confidence and the old price
C33_Witness ==
    /\ Len(up_rows) = 1
    /\ up_call.updated
    /\ up_call.now = 2
    /\ up_call.last.polymarket_id = up_rows[1].polymarket_id
    /\ up_call.last.kalshi_id = up_rows[1].kalshi_id
    /\ up_rows[1].confidence = up_call.last.confidence
    /\ up_rows[1].confidence = 90
    /\ up_rows[1].last_updated = 2
    /\ up_rows[1].polymarket_yes # up_call.last.polymarket_yes

\* C34 (SpecCalc): for whole-cent YES prices from 0 to 1 on both sides the
\* fee-adjusted spread of calculate_spread is never negative, and for a
\* fixed Kalshi price no Polymarket price with a raw spread at least as
\* large gives a smaller fee-adjusted spread.
C34_SpreadFlooredAndMonotone ==
    calc_out.done =>
        /\ calc_out.fee_adjusted_spread >= 0
        /\ \A poly_yes \in CalcPrices :
              calculate_spread(poly_yes, calc_in.kalshi_yes).raw_spread >= calc_out.raw_spread
                  => calculate_spread(poly_yes, calc_in.kalshi_yes).fee_adjusted_spread
                         >= calc_out.fee_adjusted_spread

\* the fees are larger than the gap of 0.51 and 0.50, and the spread is 0
C34_Witness ==
    /\ calc_out.done
    /\ calc_in = [poly_yes |-> 50, kalshi_yes |-> 51]
    /\ calc_out.kalshi_fee > calc_out.raw_spread
    /\ calc_out.fee_adjusted_spread = 0

\* the raw gap of the two prices and the Kalshi fee, in units of 0.000001
RawGap == 10000 * Abs(calc_in.poly_yes - calc_in.kalshi_yes)
FeesOf == IF 7 * calc_in.kalshi_yes * (100 - calc_in.kalshi_yes) < 20000
          THEN 7 * calc_in.kalshi_yes * (100 - calc_in.kalshi_yes) ELSE 20000

\* C35 (SpecCalc): calculate_spread reports buy_kalshi_sell_poly exactly
\* when the Polymarket YES price is at least the Kalshi one and
\* buy_poly_sell_kalshi otherwise; it reports profitable exactly when the
\* gap of the prices exceeds the fees; 0.70 against 0.50 gives a positive
\* fee-adjusted spread, profitable, buy Kalshi / sell Polymarket, and 0.51
\* against 0.50 a fee-adjusted spread of 0, not profitable.
C35_DirectionAndProfit ==
    calc_out.done =>
        /\ calc_out.direction = "buy_kalshi_sell_poly" <=> calc_in.poly_yes >= calc_in.kalshi_yes
        /\ calc_out.direction = "buy_poly_sell_kalshi" <=> calc_in.poly_yes < calc_in.kalshi_yes
        /\ calc_out.profitable <=> RawGap > FeesOf
        /\ calc_in = [poly_yes |-> 70, kalshi_yes |-> 50] =>
               /\ calc_out.fee_adjusted_spread > 0
               /\ calc_out.profitable
               /\ calc_out.direction = "buy_kalshi_sell_poly"
        /\ calc_in = [poly_yes |-> 51, kalshi_yes |-> 50] =>
               /\ calc_out.fee_adjusted_spread = 0
               /\ ~calc_out.profitable

\* 0.70 against 0.50: the spread less the capped fee, 0.1825
C35_Witness ==
    /\ calc_out.done
    /\ calc_in = [poly_yes |-> 70, kalshi_yes |-> 50]
    /\ calc_out.fee_adjusted_spread = 1825
    /\ calc_out.profitable

\* ids of the matches whose history rows a running cleanup has deleted and
\* whose rows its next statement deletes
BeingDeleted ==
    {id \in MatchIds : \E p \in CycleProcs :
        /\ pc[p] = "cleanup_matches"
        /\ \E pr \in StalePairs(listing[p]) : matches[pr] = id}

\* C36 (Spec): no history row of a match is inserted after the diff cleanup
\* has deleted that match's history rows and while the match is being
\* deleted, nor after the match is gone: no history row ever references a
\* match that does not exist.
C36_NoHistoryAfterDelete ==
    [][/\ \A id \in BeingDeleted : price_history'[id] <= price_history[id]
       /\ \A id \in MatchIds \ MatchRowIds : price_history[id] = 0]_vars

\* C37 (SpecIngest): the diff cleanup deletes no persisted match both of
\* whose listings the exchanges still list, and no such listing: when a page
\* fetch fails after its retries and the ingest returns a partial listing,
\* the matches and listings of the pages that were not fetched are kept.
C37_ListedUpstreamKept ==
    [][/\ \A pr \in Pairs :
            (matches[pr] # NoRow /\ pr[1] \in upstream.poly /\ pr[2] \in upstream.kalshi
             /\ upstream' = upstream)
                => matches'[pr] = matches[pr]
       /\ \A m \in upstream.poly \cup upstream.kalshi :
            (markets[m] # NoRow /\ upstream' = upstream) => markets'[m] # NoRow]_vars

\* in this step the broadcast of handler c returns or raises
BroadcastOver(c) == bcast[c].match_id # 0 /\ bcast'[c].match_id = 0

\* C38 (SpecFront): whatever other clients subscribe, unsubscribe or
\* disconnect while a broadcast for a match is in progress, every client
\* that stays connected and subscribed to the match from the call of the
\* broadcast to its end is sent the update.
C38_SteadySubscribersReceive ==
    [][\A c \in WsClients :
          BroadcastOver(c) => bcast[c].steady \subseteq SeqRange(bcast[c].sent)]_vars

\* C39 (SpecFront): after any sequence of connect, subscribe, unsubscribe,
\* disconnect and broadcast operations the two indexes of the connection
\* manager agree: a client is in the subscriber set of a match exactly when
\* the match is in that client's subscription set, no subscriber set is
\* empty, and no disconnected client is in any subscriber set.
C39_IndexesAgree ==
    /\ \A ws \in DOMAIN _connections : \A m \in MatchIds :
          (m \in DOMAIN _match_subscribers /\ ws \in _match_subscribers[m])
              <=> m \in _connections[ws]
    /\ \A m \in DOMAIN _match_subscribers :
          /\ _match_subscribers[m] # {}
          /\ _match_subscribers[m] \subseteq DOMAIN _connections

\* one client is subscribed to both matches and the other is not connected,
\* after four or more operations of the clients and a broadcast
C39_Witness ==
    /\ DOMAIN _connections = {"w1"}
    /\ _connections["w1"] = MatchIds
    /\ front_ops >= 4
    /\ broadcasts >= 1

\* every time of s is at least a throttle interval away from every time of t
RowsApart(s, t) ==
    \A i \in 1..Len(s), j \in 1..Len(t) :
        s[i] - t[j] >= _HISTORY_INTERVAL \/ t[j] - s[i] >= _HISTORY_INTERVAL

\* C40 (SpecHistory), as stated: over all the writers of history rows, the streaming
\* handlers of both clients and the REST price refresh, at most one history
\* row per match is appended per throttle interval: no two history rows of
\* one match are less than _HISTORY_INTERVAL apart.
C40_OneRowPerInterval ==
    \A id \in MatchIds :
        /\ \A i, j \in 1..Len(stream_rows[id]) :
              i < j => stream_rows[id][j] - stream_rows[id][i] >= _HISTORY_INTERVAL
        /\ \A i, j \in 1..Len(rest_rows[id]) :
              i < j => rest_rows[id][j] - rest_rows[id][i] >= _HISTORY_INTERVAL
        /\ RowsApart(stream_rows[id], rest_rows[id])

\* C40 (SpecHistory), amended: of the history rows that the streaming
\* handlers of both clients append, at most one per match falls in a
\* throttle interval; the REST price refresh appends one row per refreshed
\* match in every pass, whatever the streaming handlers appended before.
C40_StreamingThrottledRestPerPass ==
    \A id \in MatchIds :
        /\ \A i, j \in 1..Len(stream_rows[id]) :
              i < j => stream_rows[id][j] - stream_rows[id][i] >= _HISTORY_INTERVAL
        /\ Len(rest_rows[id]) <= refreshes
        /\ price_history[id] = Len(stream_rows[id]) + Len(rest_rows[id])

\* a match has two streaming rows an interval apart and a row of the REST
\* refresh less than an interval from one of them
C40_Witness ==
    \E id \in MatchIds :
        /\ Len(stream_rows[id]) = 2
        /\ rest_rows[id] # <<>>
        /\ ~RowsApart(stream_rows[id], rest_rows[id])

====
